---- MODULE Spec2Model ----
(***************************************************************************)
(* Model of the browser-driven generation workflows of mcp-browser:        *)
(*   generate_sora_video  (sora.py)  - variables s_*, specification        *)
(*                                     SpecSora                            *)
(*   generate_grok_image  (grok.py)  - variables g_*, specification        *)
(*                                     SpecGrok                            *)
(* Each workflow is a sequential coroutine; one action is one stretch of   *)
(* its code between two points at which a browser operation can return,    *)
(* report absence, or raise.  The remote services (the drafts listing, the *)
(* rendered images) are the environment.                                   *)
(***************************************************************************)
EXTENDS Integers, Sequences, FiniteSets, TLC

VARIABLES
    \* ---- generate_sora_video: locals of the coroutine
    s_pc,               \* position in the coroutine
    s_attempt,          \* loop variable `attempt`
    s_page,             \* local `page` (0 is None)
    s_drafts_page,      \* local `drafts_page` (0 is unbound)
    s_last_error,       \* local `last_error`, a sequence of words
    s_existing_drafts,  \* local `existing_drafts`
    s_create_clicked,   \* local `create_clicked`
    s_new_draft_href,   \* local `new_draft_href`
    s_video_src,        \* local `video_src`
    s_scene_cards_found, \* local `scene_cards_found` ("Unbound" before line 91)
    s_result,           \* the returned dictionary (NoResult until return)
    s_elapsed,          \* time.time() - (deadline - timeout) of the running poll
    \* ---- generate_sora_video: browser and remote service
    s_open,             \* tabs opened by this call that are still open
    s_tabs,             \* number of tabs created by this call
    s_server,           \* the drafts listing on the service, newest first
    s_dom,              \* the tile links of `page` as last loaded
    s_drafts_dom,       \* the tile links of `drafts_page` as loaded
    s_appeared,         \* number of drafts that appeared during the call
    s_written,          \* whether bytes were written to output_path
    \* ---- generate_sora_video: history
    s_clicks,           \* number of create_btn.click() calls that returned
    s_commits,          \* number of times the Create click took effect
    s_commit_attempt,   \* attempt of the latest Create click that took effect
    s_snapshot_attempt, \* attempt in which existing_drafts was last assigned
    s_typed,            \* number of textarea.fill(prompt) calls that returned
    s_disabled,         \* number of create_btn.click() calls on a disabled button
    s_duration,         \* how the _set_duration call just before the current
                        \* statement ended ("" at every other statement)
    s_sleeps,           \* number of asyncio.sleep(SORA_RETRY_DELAY_S) calls
    s_all_login,        \* every attempt that has failed so far failed the login check
    s_true_at,          \* s_elapsed when a tile outside this attempt's snapshot
                        \* was first listed by the service (-1: none is)
    \* ---- generate_grok_image: locals of the coroutine
    g_pc,
    g_attempt,
    g_page,
    g_last_error,
    g_image_data,       \* local `image_data`
    g_result,
    g_elapsed,
    \* ---- generate_grok_image: browser and remote service
    g_open,
    g_tabs,
    g_imgs,             \* src attributes of img[alt="Generated image"], in DOM order
    g_renders,          \* number of times the page re-rendered its images
    g_written,          \* the bytes written to output_path (<< >> if none)
    g_submits,          \* number of times the Submit click took effect
    \* ---- generate_grok_image: history
    g_typed,            \* number of page.keyboard.type(prompt) calls that returned
    g_sleeps,           \* number of asyncio.sleep(RETRY_DELAY_S) calls
    g_all_login,        \* every attempt that has failed so far failed the login check
    \* ---- browser.py: module globals
    b_playwright,       \* global `_playwright` (0 is None, else the engine's number)
    b_context,          \* global `_context` (0 is None, else the session's number)
    \* ---- browser.py: the coroutine of the request being served
    b_pc,               \* position in the function on top of the stack
    b_stack,            \* the functions called and not yet returned
    b_arg,              \* the `page` argument of close_page / wait_for_element
    b_page,             \* local `page` of get_page and check_auth (0 is unbound)
    b_found,            \* local `found` of check_auth
    b_val,              \* how the call that ended last ended
    b_status,           \* grok_status, sora_status of check_browser_session
    b_ret,              \* what the latest request gave its caller
    \* ---- browser.py: the browser
    b_alive,            \* the sessions that are running
    b_running,          \* the engines that are running
    b_open,             \* the open tabs, as << session, tab >>
    \* ---- browser.py: history
    b_sessions,         \* number of sessions launched
    b_engines,          \* number of engines started
    b_starts,           \* engines started since the latest shutdown
    b_tabs,             \* number of tabs created
    b_calls,            \* number of requests made
    \* ---- facebook_metrics.py: the two text parsers
    p_pc,               \* "ready", or the parser that has been applied
    p_text,             \* parameter `text`, a sequence of characters
    p_result,           \* what the parser returned
    \* ---- browser.py: get_context called by two tasks of the event loop
    c_pc,               \* per task: the await its call is suspended at
    c_ret               \* per task: how its call ended

svars == << s_pc, s_attempt, s_page, s_drafts_page, s_last_error,
            s_existing_drafts, s_create_clicked, s_new_draft_href, s_video_src,
            s_result, s_elapsed, s_open, s_tabs, s_server, s_dom, s_drafts_dom,
            s_appeared,
            s_written, s_clicks, s_commits, s_commit_attempt,
            s_snapshot_attempt, s_scene_cards_found, s_typed, s_disabled,
            s_duration, s_sleeps,
            s_all_login, s_true_at >>

gvars == << g_pc, g_attempt, g_page, g_last_error, g_image_data, g_result,
            g_elapsed,
            g_open, g_tabs, g_imgs, g_renders, g_written, g_submits,
            g_typed, g_sleeps, g_all_login >>

bvars == << b_playwright, b_context, b_pc, b_stack, b_arg, b_page, b_found,
            b_val, b_status, b_ret, b_alive, b_running, b_open, b_sessions,
            b_engines, b_starts, b_tabs, b_calls >>

pvars == << p_pc, p_text, p_result >>

cvars == << c_pc, c_ret >>

not_sora == << gvars, bvars, pvars, cvars >>
not_grok == << svars, bvars, pvars, cvars >>
not_browser == << svars, gvars, pvars, cvars >>
not_parse == << svars, gvars, bvars, cvars >>

vars == << svars, gvars, bvars, pvars, cvars >>

(***************************************************************************)
(* Program constants (config.py).                                          *)
(***************************************************************************)
RETRY_ATTEMPTS == 3
\* len(src) > 150_000 in _poll_for_loaded_image (grok.py)
FULL_RES_MIN_LEN == 150000

(***************************************************************************)
(* Bounds of the model.                                                    *)
(***************************************************************************)
\* SORA_TIMEOUT_MS / SORA_DRAFT_POLL_INTERVAL_S, scaled: the deadline of
\* _poll_drafts_for_new in units of one poll interval.
SoraTimeoutTicks == 2
\* timeout_s=600 of _wait_for_scene_cards over its sleep of 5 s, scaled.
SceneTimeoutTicks == 1
\* Drafts that may appear on the service during one call.
MaxNewDrafts == 1
\* DEFAULT_TIMEOUT_MS / SCREENSHOT_POLL_INTERVAL_S, scaled.
GrokTimeoutTicks == 2
\* Times the image page may re-render during one call.
MaxRenders == 2
\* Requests made of the session manager in one run.
MaxCalls == 3
\* Tasks that call get_context at the same time.
NumCallers == 2
\* Length of the texts the parsers are applied to.
MaxLen == 5

\* Ticks a browser operation inside a poll cycle may take on top of the sleep.
OpTicks == {0, 1}

(***************************************************************************)
(* Text.  A message is a sequence of words; an attribute value is a        *)
(* sequence of characters.                                                 *)
(***************************************************************************)
None == << "None" >>
Unbound == << "Unbound" >>
NoResult == [success |-> FALSE, path |-> << "no", "result" >>, error |-> None]
OutputPath == << "/out/video.mp4" >>

Range(s) == {s[i] : i \in 1..Len(s)}

Min(a, b) == IF a < b THEN a ELSE b

\* str[:n]
Prefix(s, n) == SubSeq(s, 1, Min(n, Len(s)))

\* str.startswith(p)
StartsWith(s, p) == Len(s) >= Len(p) /\ SubSeq(s, 1, Len(p)) = p

\* `needle in text`, on words
Contains(text, needle) ==
    \E i \in 0..(Len(text) - Len(needle)) :
        SubSeq(text, i + 1, i + Len(needle)) = needle

\* str(n) for the numbers the messages embed
DecStr(n) ==
    CASE n = 0 -> "0" [] n = 1 -> "1" [] n = 2 -> "2" [] n = 3 -> "3"
      [] n = 4 -> "4" [] n = 5 -> "5" [] n = 6 -> "6" [] n = 7 -> "7"
      [] n = 8 -> "8" [] n = 9 -> "9"

\* str(e) of the exceptions the browser operations raise
ExcMsgs == { << "Timeout", "120000ms", "exceeded." >>,
             << "Target", "page,", "context", "or", "browser", "has",
                "been", "closed" >> }

SoraLoginMsg ==
    << "Redirected", "to", "login.", "Please", "log", "in", "to",
       "ChatGPT/Sora", "first", "(requires", "ChatGPT", "Plus/Pro,", "run",
       "with", "SMI_HEADLESS=false)" >>
SoraTextareaMsg ==
    << "Could", "not", "find", "master", "prompt", "textarea", "('Describe",
       "your", "video...')" >>
SoraCreateMsg == << "Could", "not", "find", "Create", "button" >>
\* (the dash of the source text is written "-")
SoraTimedOutMsg ==
    << "Video", "generation", "timed", "out", "-", "no", "new", "draft",
       "appeared" >>
SoraNoVideoMsg ==
    << "No", "<video>", "element", "found", "on", "detail", "page" >>
SoraNotUrlMsg(video_src) ==
    << "Video", "src", "is", "not", "a", "URL:" >> \o Prefix(video_src, 80)

\* The dictionary returned after the loop.
FailureResultKeepsPath(last_error) ==
    [success |-> FALSE,
     path    |-> OutputPath,
     error   |-> << "Failed", "after", DecStr(RETRY_ATTEMPTS), "attempts:" >>
                 \o last_error]
FailureResult(last_error) ==
    [success |-> FALSE,
     path    |-> << >>,
     error   |-> << "Failed", "after", DecStr(RETRY_ATTEMPTS), "attempts:" >>
                 \o last_error]

SuccessResult(output_path) ==
    [success |-> TRUE, path |-> output_path, error |-> None]

(***************************************************************************)
(* Pages (browser.py).                                                     *)
(***************************************************************************)
\* get_page: "ok" returns a navigated tab; "raise_no_tab" raises in
\* get_context or new_page; "raise_tab_open" raises in goto, after new_page.
GetPageOutcomes == {"ok", "raise_no_tab", "raise_tab_open"}

\* close_page: the tab is closed; a failure of page.close() is swallowed.
ClosePage(open, page) == open \ {page}

\* for attempt in range(1, RETRY_ATTEMPTS + 1)
AttemptRange == 1..RETRY_ATTEMPTS
LoopHasNextOffByOne(attempt) == (attempt + 1) \in 1..(RETRY_ATTEMPTS + 1)
LoopHasNext(attempt) == (attempt + 1) \in AttemptRange

\* if attempt < RETRY_ATTEMPTS
RetryLeftOffByOne(attempt) == attempt < RETRY_ATTEMPTS - 1
RetryLeft(attempt) == attempt < RETRY_ATTEMPTS

\* while time.time() < deadline, with deadline = (start) + timeout_s
DeadlineNeverPasses(elapsed, timeout_s) == TRUE
BeforeDeadline(elapsed, timeout_s) == elapsed < timeout_s

(***************************************************************************)
(* generate_sora_video: the remote service.                                *)
(***************************************************************************)
\* The href of a draft tile, a[href^="/d/"].
Href(k) == << "/d/", DecStr(k) >>

\* Listings the account may hold when the call starts, newest first.
InitialListings == { << >>, << Href(1) >> }

\* src attributes the <video> element of a detail page may carry
\* (None: the attribute is absent).
VideoSrcAttrs ==
    { None,
      << >>,
      << "b", "l", "o", "b", ":", "x" >>,
      << "h", "t", "t" >>,
      << "h", "t", "t", "p", "s", ":", "/", "/", "v" >> }

(***************************************************************************)
(* generate_sora_video: helpers.                                           *)
(***************************************************************************)
\* _get_draft_hrefs: the href of every tile link, in DOM order, empty ones
\* dropped.
GetDraftHrefs(links) == SelectSeq(links, LAMBDA href : href # << >>)

\* new_hrefs = [h for h in current_hrefs if h not in existing_draft_set]
NewHrefsUnfiltered(current_hrefs, existing_draft_set) == current_hrefs
NewHrefs(current_hrefs, existing_draft_set) ==
    SelectSeq(current_hrefs, LAMBDA h : h \notin existing_draft_set)

\* `not x` for a value that is None or a string
Falsy(x) == x = None \/ x = << >>

\* What the code after the loop returns, and the loop's ways to get there.
\* `continue` after close_page(page): the next iteration starts with
\* page = None.
S_NextAttempt ==
    /\ s_attempt' = s_attempt + 1
    /\ s_pc' = "open"
    /\ s_page' = 0
    /\ s_true_at' = -1
    /\ UNCHANGED s_result

\* Leaving the loop: the return statement after it.
S_ReturnFailureStale(last_error) ==
    /\ s_pc' = "done"
    /\ s_result' = FailureResult(s_last_error)
    /\ UNCHANGED << s_attempt, s_page, s_true_at >>
S_ReturnFailure(last_error) ==
    /\ s_pc' = "done"
    /\ s_result' = FailureResult(last_error)
    /\ UNCHANGED << s_attempt, s_page, s_true_at >>

\* An ordinary step: no error, same attempt.
S_Step(pc, page, open) ==
    /\ s_pc' = pc
    /\ s_page' = page
    /\ s_open' = open
    /\ UNCHANGED << s_attempt, s_last_error, s_result, s_sleeps, s_all_login,
                    s_true_at >>

\* last_error = msg; if attempt < RETRY_ATTEMPTS: close_page(page); sleep;
\* continue; else break
S_RetryableBreaks(msg) ==
    /\ s_last_error' = msg
    /\ s_all_login' = (s_all_login /\ msg = SoraLoginMsg)
    /\ s_open' = s_open
    /\ s_sleeps' = s_sleeps
    /\ S_ReturnFailure(msg)
S_Retryable(msg) ==
    /\ s_last_error' = msg
    /\ s_all_login' = (s_all_login /\ msg = SoraLoginMsg)
    /\ IF RetryLeft(s_attempt)
         THEN /\ s_open' = ClosePage(s_open, s_page)
              /\ s_sleeps' = s_sleeps + 1
              /\ S_NextAttempt
         ELSE /\ s_open' = s_open
              /\ s_sleeps' = s_sleeps
              /\ S_ReturnFailure(msg)

\* last_error = msg; break
S_BreakRetrying(msg) == S_Retryable(msg)
S_Break(msg) ==
    /\ s_last_error' = msg
    /\ s_open' = s_open
    /\ s_all_login' = FALSE
    /\ s_sleeps' = s_sleeps
    /\ S_ReturnFailure(msg)

\* except Exception as e: last_error = str(e); if page: close_page(page);
\* if attempt < RETRY_ATTEMPTS: sleep; the for loop then takes its next
\* value, or ends.
S_Except(e, open) ==
    /\ s_last_error' = e
    /\ s_open' = IF s_page # 0 THEN ClosePage(open, s_page) ELSE open
    /\ s_all_login' = FALSE
    /\ s_sleeps' = IF RetryLeft(s_attempt) THEN s_sleeps + 1 ELSE s_sleeps
    /\ IF LoopHasNext(s_attempt)
         THEN S_NextAttempt
         ELSE S_ReturnFailure(e)

\* The steps inside `try:` ... `except Exception`.
SoraTryBlockAfterGetPage ==
    { "auth", "configure", "wait_textarea", "type_prompt", "scene_cards",
      "snap_open", "snap_read", "find_create", "click_create", "goto_drafts",
      "poll", "poll_reload", "poll_sleep", "open_detail", "find_video",
      "video_src", "download" }
SoraTryBlock ==
    { "open", "auth", "configure", "wait_textarea", "type_prompt",
      "scene_cards", "snap_open", "snap_read", "find_create", "click_create",
      "goto_drafts", "poll", "poll_reload", "poll_sleep", "open_detail",
      "find_video", "video_src", "download" }

\* An exception no handler of the coroutine catches reaches its caller.
S_Escape(open) ==
    /\ s_pc' = "raised"
    /\ s_open' = open
    /\ UNCHANGED << s_attempt, s_page, s_last_error, s_result, s_sleeps,
                    s_all_login, s_true_at >>

\* A browser operation of step s_pc raises e.
S_Raise(e, open) ==
    IF s_pc \in SoraTryBlock THEN S_Except(e, open) ELSE S_Escape(open)

s_locals == << s_drafts_page, s_existing_drafts, s_create_clicked,
               s_new_draft_href, s_video_src, s_scene_cards_found >>
s_counters == << s_clicks, s_commits, s_commit_attempt, s_snapshot_attempt,
                 s_typed, s_disabled >>
s_history == << s_counters, s_duration >>
s_remote == << s_server, s_appeared, s_written >>

(***************************************************************************)
(* generate_sora_video: the steps.                                         *)
(***************************************************************************)
\* Step 1: page = await get_page(SORA_STORYBOARD_URL)
S_Open ==
    /\ s_pc = "open"
    /\ \E o \in GetPageOutcomes :
         \/ /\ o = "ok"
            /\ s_tabs' = s_tabs + 1
            /\ S_Step("auth", s_tabs + 1, s_open \cup {s_tabs + 1})
         \/ /\ o = "raise_no_tab"
            /\ s_tabs' = s_tabs
            /\ \E e \in ExcMsgs : S_Raise(e, s_open)
         \/ /\ o = "raise_tab_open"
            /\ s_tabs' = s_tabs + 1
            /\ \E e \in ExcMsgs : S_Raise(e, s_open \cup {s_tabs + 1})
    /\ UNCHANGED << s_locals, s_history, s_remote, s_elapsed, s_dom,
                    s_drafts_dom, not_sora >>

\* if "login" in page.url
S_AuthCheck ==
    /\ s_pc = "auth"
    /\ \E login \in BOOLEAN :
         IF login
           THEN S_Retryable(SoraLoginMsg)
           ELSE S_Step("configure", s_page, s_open)
    /\ UNCHANGED << s_locals, s_history, s_remote, s_elapsed, s_dom,
                    s_drafts_dom, s_tabs, not_sora >>

\* The ways through _set_duration: no duration button, no option with the
\* text "<duration> seconds", the option clicked, or an operation raised.
SetDurationOutcomes == { "no_button", "no_option", "set", "raised" }

\* What the end of _set_duration does to its caller: `return`, the end of
\* the body, or `except Exception: pass`.
S_SetDurationEndRaising(outcome) ==
    IF outcome = "raised"
      THEN \E e \in ExcMsgs : S_Raise(e, s_open)
      ELSE S_Step("wait_textarea", s_page, s_open)
S_SetDurationEnd(outcome) == S_Step("wait_textarea", s_page, s_open)

\* Step 2: await _set_duration(page, duration)
S_SetDuration ==
    /\ s_pc = "configure"
    /\ \E outcome \in SetDurationOutcomes :
         /\ s_duration' = outcome
         /\ S_SetDurationEnd(outcome)
    /\ UNCHANGED << s_locals, s_counters, s_remote, s_elapsed, s_dom,
                    s_drafts_dom, s_tabs, not_sora >>

\* Step 3: found = await wait_for_element(page, master_sel, ...)
S_WaitTextarea ==
    /\ s_pc = "wait_textarea"
    /\ \E found \in BOOLEAN :
         IF found
           THEN S_Step("type_prompt", s_page, s_open)
           ELSE S_Retryable(SoraTextareaMsg)
    /\ s_duration' = ""
    /\ UNCHANGED << s_locals, s_counters, s_remote, s_elapsed, s_dom,
                    s_drafts_dom, s_tabs, not_sora >>

\* query_selector, click, fill, keyboard.press("Enter")
\* _wait_for_scene_cards then computes its deadline.
S_TypePrompt ==
    /\ s_pc = "type_prompt"
    /\ \E o \in {"ok", "raise_before_fill", "raise_after_fill"} :
         \/ /\ o = "ok"
            /\ s_typed' = s_typed + 1
            /\ s_elapsed' = 0
            /\ S_Step("scene_cards", s_page, s_open)
         \/ /\ o = "raise_before_fill"
            /\ UNCHANGED << s_typed, s_elapsed >>
            /\ \E e \in ExcMsgs : S_Raise(e, s_open)
         \/ /\ o = "raise_after_fill"
            /\ s_typed' = s_typed + 1
            /\ UNCHANGED s_elapsed
            /\ \E e \in ExcMsgs : S_Raise(e, s_open)
    /\ UNCHANGED << s_locals, s_clicks, s_commits, s_commit_attempt,
                    s_snapshot_attempt, s_disabled, s_duration, s_remote,
                    s_dom, s_drafts_dom, s_tabs, not_sora >>

\* scene_cards_found = await _wait_for_scene_cards(page, timeout_s=600);
\* the value is not read.
SceneCardsNextSkipsSnapshot == "find_create"
SceneCardsNext == "snap_open"

\* What generate_sora_video does with the value _wait_for_scene_cards
\* returned.
S_SceneCardsReturnFailing(scene_cards_found) ==
    IF scene_cards_found = "True"
      THEN S_Step(SceneCardsNext, s_page, s_open)
      ELSE S_Retryable(<< "Scene", "cards", "did", "not", "appear" >>)
S_SceneCardsReturn(scene_cards_found) ==
    S_Step(SceneCardsNext, s_page, s_open)

\* _wait_for_scene_cards: the loop test and one cycle. The cards are there
\* when either selector matches.
S_WaitSceneCards ==
    /\ s_pc = "scene_cards"
    /\ IF BeforeDeadline(s_elapsed, SceneTimeoutTicks)
         THEN \/ \E cards \in BOOLEAN :
                   IF cards
                     THEN /\ s_scene_cards_found' = "True"
                          /\ s_elapsed' = 0
                          /\ S_SceneCardsReturn("True")
                     ELSE /\ UNCHANGED s_scene_cards_found
                          /\ \E d \in OpTicks :
                               s_elapsed' =
                                 Min(s_elapsed + 1 + d, SceneTimeoutTicks)
                          /\ S_Step("scene_cards", s_page, s_open)
              \/ /\ UNCHANGED << s_scene_cards_found, s_elapsed >>
                 /\ \E e \in ExcMsgs : S_Raise(e, s_open)
         ELSE /\ s_scene_cards_found' = "False"
              /\ s_elapsed' = 0
              /\ S_SceneCardsReturn("False")
    /\ UNCHANGED << s_drafts_page, s_existing_drafts, s_create_clicked,
                    s_new_draft_href, s_video_src, s_history, s_remote,
                    s_dom, s_drafts_dom, s_tabs, not_sora >>

\* drafts_page = await get_page(SORA_DRAFTS_URL)
S_SnapOpen ==
    /\ s_pc = "snap_open"
    /\ \E o \in GetPageOutcomes :
         \/ /\ o = "ok"
            /\ s_tabs' = s_tabs + 1
            /\ s_drafts_page' = s_tabs + 1
            /\ s_drafts_dom' = s_server
            /\ S_Step("snap_read", s_page, s_open \cup {s_tabs + 1})
         \/ /\ o = "raise_no_tab"
            /\ UNCHANGED << s_tabs, s_drafts_page, s_drafts_dom >>
            /\ \E e \in ExcMsgs : S_Raise(e, s_open)
         \/ /\ o = "raise_tab_open"
            /\ s_tabs' = s_tabs + 1
            /\ UNCHANGED << s_drafts_page, s_drafts_dom >>
            /\ \E e \in ExcMsgs : S_Raise(e, s_open \cup {s_tabs + 1})
    /\ UNCHANGED << s_existing_drafts, s_create_clicked, s_new_draft_href,
                    s_video_src, s_scene_cards_found, s_history, s_remote,
                    s_elapsed, s_dom, not_sora >>

\* existing_drafts = set(await _get_draft_hrefs(drafts_page));
\* await close_page(drafts_page)
S_SnapRead ==
    /\ s_pc = "snap_read"
    /\ \/ /\ s_existing_drafts' = Range(GetDraftHrefs(s_drafts_dom))
          /\ s_snapshot_attempt' = s_attempt
          /\ S_Step("find_create", s_page, ClosePage(s_open, s_drafts_page))
       \/ /\ UNCHANGED << s_existing_drafts, s_snapshot_attempt >>
          /\ \E e \in ExcMsgs : S_Raise(e, s_open)
    /\ UNCHANGED << s_drafts_page, s_create_clicked, s_new_draft_href,
                    s_video_src, s_scene_cards_found, s_clicks, s_commits,
                    s_commit_attempt, s_typed, s_disabled, s_duration,
                    s_remote,
                    s_elapsed, s_dom, s_drafts_dom, s_tabs, not_sora >>

\* Step 7: create_clicked = False; look the Create button up by text, then
\* by aria-label.
S_FindCreate ==
    /\ s_pc = "find_create"
    /\ s_create_clicked' = FALSE
    /\ \/ \E create_btn \in BOOLEAN :
            IF create_btn
              THEN S_Step("click_create", s_page, s_open)
              ELSE S_Retryable(SoraCreateMsg)
       \/ \E e \in ExcMsgs : S_Raise(e, s_open)
    /\ UNCHANGED << s_drafts_page, s_existing_drafts, s_new_draft_href,
                    s_video_src, s_scene_cards_found, s_history, s_remote,
                    s_elapsed, s_dom, s_drafts_dom, s_tabs, not_sora >>

\* ElementHandle.click() waits until the element is enabled: a button that
\* stays disabled receives no click, and the call raises at its timeout.
ClickFiresOnForced(enabled) == TRUE
ClickFiresOn(enabled) == enabled

\* if not create_clicked: await create_btn.click(); create_clicked = True.
\* A click that raises may or may not have reached the service.
S_ClickCreate ==
    /\ s_pc = "click_create"
    /\ ~s_create_clicked
    /\ \E enabled \in BOOLEAN, o \in {"ok", "raise_fired", "raise_unfired"} :
         /\ s_disabled' = IF enabled THEN s_disabled ELSE s_disabled + 1
         /\ ClickFiresOn(enabled) \/ o = "raise_unfired"
         /\ \/ /\ o = "ok"
               /\ s_create_clicked' = TRUE
               /\ s_clicks' = s_clicks + 1
               /\ s_commits' = s_commits + 1
               /\ s_commit_attempt' = s_attempt
               /\ S_Step("goto_drafts", s_page, s_open)
            \/ /\ o = "raise_fired"
               /\ s_commits' = s_commits + 1
               /\ s_commit_attempt' = s_attempt
               /\ UNCHANGED << s_create_clicked, s_clicks >>
               /\ \E e \in ExcMsgs : S_Raise(e, s_open)
            \/ /\ o = "raise_unfired"
               /\ UNCHANGED << s_create_clicked, s_clicks, s_commits,
                               s_commit_attempt >>
               /\ \E e \in ExcMsgs : S_Raise(e, s_open)
    /\ UNCHANGED << s_drafts_page, s_existing_drafts, s_new_draft_href,
                    s_video_src, s_scene_cards_found, s_snapshot_attempt,
                    s_typed, s_duration, s_remote, s_elapsed, s_dom,
                    s_drafts_dom, s_tabs, not_sora >>

\* Step 8: await page.goto(SORA_DRAFTS_URL, ...); _poll_drafts_for_new
\* computes its deadline.
S_GotoDrafts ==
    /\ s_pc = "goto_drafts"
    /\ \/ /\ s_dom' = s_server
          /\ s_elapsed' = 0
          /\ S_Step("poll", s_page, s_open)
       \/ /\ UNCHANGED << s_dom, s_elapsed >>
          /\ \E e \in ExcMsgs : S_Raise(e, s_open)
    /\ UNCHANGED << s_locals, s_history, s_remote, s_drafts_dom, s_tabs,
                    not_sora >>

\* _poll_drafts_for_new, the loop test and the check of one cycle, and what
\* generate_sora_video does with None.
S_PollCheck ==
    /\ s_pc = "poll"
    /\ IF BeforeDeadline(s_elapsed, SoraTimeoutTicks)
         THEN \/ LET current_hrefs == GetDraftHrefs(s_dom)
                     new_hrefs == NewHrefs(current_hrefs, s_existing_drafts)
                 IN IF new_hrefs # << >>
                      THEN /\ s_new_draft_href' = new_hrefs[1]
                           /\ S_Step("open_detail", s_page, s_open)
                      ELSE /\ UNCHANGED s_new_draft_href
                           /\ S_Step("poll_reload", s_page, s_open)
              \/ /\ UNCHANGED s_new_draft_href
                 /\ \E e \in ExcMsgs : S_Raise(e, s_open)
         ELSE /\ s_new_draft_href' = None
              /\ Falsy(None)
              /\ S_Break(SoraTimedOutMsg)
    /\ UNCHANGED << s_drafts_page, s_existing_drafts, s_create_clicked,
                    s_video_src, s_scene_cards_found, s_history, s_remote,
                    s_elapsed, s_dom, s_drafts_dom, s_tabs, not_sora >>

\* What the page holds after page.reload(): the listing the service has at
\* that time.
ReloadKeepsListing(dom, server) == dom
Reloaded(dom, server) == server

\* await page.reload(wait_until="domcontentloaded")
S_PollReloadWith(existing_draft_set) ==
    /\ s_pc = "poll_reload"
    /\ \/ /\ s_dom' = Reloaded(s_dom, s_server)
          /\ s_existing_drafts' = existing_draft_set
          /\ \E d \in OpTicks :
               s_elapsed' = Min(s_elapsed + d, SoraTimeoutTicks)
          /\ S_Step("poll_sleep", s_page, s_open)
       \/ /\ UNCHANGED << s_dom, s_elapsed, s_existing_drafts >>
          /\ \E e \in ExcMsgs : S_Raise(e, s_open)
    /\ UNCHANGED << s_drafts_page, s_create_clicked, s_new_draft_href,
                    s_video_src, s_scene_cards_found, s_history, s_remote,
                    s_drafts_dom, s_tabs, not_sora >>

S_PollReloadMerging ==
    S_PollReloadWith(s_existing_drafts \cup Range(GetDraftHrefs(s_server)))
S_PollReload == S_PollReloadWith(s_existing_drafts)

\* await asyncio.sleep(SORA_DRAFT_POLL_INTERVAL_S)
S_PollSleep ==
    /\ s_pc = "poll_sleep"
    /\ s_elapsed' = Min(s_elapsed + 1, SoraTimeoutTicks)
    /\ S_Step("poll", s_page, s_open)
    /\ UNCHANGED << s_locals, s_history, s_remote, s_dom, s_drafts_dom,
                    s_tabs, not_sora >>

\* Step 9: click the tile, or goto its URL
S_OpenDetail ==
    /\ s_pc = "open_detail"
    /\ \/ S_Step("find_video", s_page, s_open)
       \/ \E e \in ExcMsgs : S_Raise(e, s_open)
    /\ UNCHANGED << s_locals, s_history, s_remote, s_elapsed, s_dom,
                    s_drafts_dom, s_tabs, not_sora >>

\* Step 10: video_el = await page.query_selector("video")
S_FindVideo ==
    /\ s_pc = "find_video"
    /\ \/ \E video_el \in BOOLEAN :
            IF video_el
              THEN S_Step("video_src", s_page, s_open)
              ELSE S_Break(SoraNoVideoMsg)
       \/ \E e \in ExcMsgs : S_Raise(e, s_open)
    /\ UNCHANGED << s_locals, s_history, s_remote, s_elapsed, s_dom,
                    s_drafts_dom, s_tabs, not_sora >>

\* video_src = await video_el.get_attribute("src") or ""
S_VideoSrc ==
    /\ s_pc = "video_src"
    /\ \/ \E attr \in VideoSrcAttrs :
            LET video_src == IF Falsy(attr) THEN << >> ELSE attr
            IN /\ s_video_src' = video_src
               /\ IF ~StartsWith(video_src, << "h", "t", "t", "p" >>)
                    THEN S_Break(SoraNotUrlMsg(video_src))
                    ELSE S_Step("download", s_page, s_open)
       \/ /\ UNCHANGED s_video_src
          /\ \E e \in ExcMsgs : S_Raise(e, s_open)
    /\ UNCHANGED << s_drafts_page, s_existing_drafts, s_create_clicked,
                    s_new_draft_href, s_scene_cards_found, s_history,
                    s_remote, s_elapsed, s_dom, s_drafts_dom, s_tabs, not_sora >>

\* page.request.get, response.body, out.write_bytes; close_page; return.
\* write_bytes opens the file for writing and writes: it may raise with the
\* file created and part of the content in it.
S_Download ==
    /\ s_pc = "download"
    /\ \/ /\ s_written' = TRUE
          /\ s_pc' = "done"
          /\ s_open' = ClosePage(s_open, s_page)
          /\ s_result' = SuccessResult(OutputPath)
          /\ UNCHANGED << s_attempt, s_page, s_last_error, s_sleeps,
                          s_all_login, s_true_at >>
       \/ /\ s_written' \in { s_written, TRUE }
          /\ \E e \in ExcMsgs : S_Raise(e, s_open)
    /\ UNCHANGED << s_locals, s_history, s_server, s_appeared, s_elapsed,
                    s_dom, s_drafts_dom, s_tabs, not_sora >>

\* The steps in which the listing of the service is compared with
\* existing_drafts of this attempt, and those between the load of the
\* snapshot and the first of them.
SoraPolling == { "poll", "poll_reload", "poll_sleep" }
SoraSnapshotLoaded == { "snap_read", "find_create", "click_create",
                        "goto_drafts" }

\* The service lists a draft that was not there before, before or after the
\* tiles it already shows.
S_DraftAppears ==
    /\ s_pc \notin {"idle", "done", "raised"}
    /\ s_appeared < MaxNewDrafts
    /\ s_appeared' = s_appeared + 1
    /\ LET tile == << Href(Len(s_server) + 1) >>
       IN \/ s_server' = tile \o s_server
          \/ s_server' = s_server \o tile
    /\ s_true_at' = IF s_true_at # -1 THEN s_true_at
                     ELSE IF s_pc \in SoraPolling THEN s_elapsed
                     ELSE IF s_pc \in SoraSnapshotLoaded THEN 0
                     ELSE -1
    /\ UNCHANGED << s_pc, s_attempt, s_page, s_last_error, s_result, s_open,
                    s_locals, s_history, s_written, s_elapsed, s_dom,
                    s_drafts_dom, s_tabs, s_sleeps, s_all_login, not_sora >>

\* No request to browser.py is modelled: nothing was created.
BrowserIdle ==
    /\ b_playwright = 0
    /\ b_context = 0
    /\ b_pc = "off"
    /\ b_stack = << >>
    /\ b_arg = 0
    /\ b_page = 0
    /\ b_found = "Unbound"
    /\ b_val = [kind |-> "none", num |-> 0, flag |-> "", msg |-> << >>]
    /\ b_status = << >>
    /\ b_ret = [kind |-> "none", num |-> 0, flag |-> "", msg |-> << >>]
    /\ b_alive = {}
    /\ b_running = {}
    /\ b_open = {}
    /\ b_sessions = 0
    /\ b_engines = 0
    /\ b_starts = 0
    /\ b_tabs = 0
    /\ b_calls = 0

\* No parser is applied.
ParseIdle ==
    /\ p_pc = "off"
    /\ p_text = << >>
    /\ p_result = [kind |-> "none", neg |-> FALSE, mant |-> 0, scale |-> 0]

\* No task is racing another for the session.
Callers == 1..NumCallers
RaceIdle ==
    /\ c_pc = [c \in Callers |-> "off"]
    /\ c_ret = [c \in Callers |->
                 [kind |-> "none", num |-> 0, flag |-> "", msg |-> << >>]]

GrokIdle ==
    /\ g_pc = "idle"
    /\ g_attempt = 0
    /\ g_page = 0
    /\ g_last_error = << >>
    /\ g_image_data = Unbound
    /\ g_result = NoResult
    /\ g_elapsed = 0
    /\ g_open = {}
    /\ g_tabs = 0
    /\ g_imgs = << >>
    /\ g_renders = 0
    /\ g_written = << >>
    /\ g_submits = 0
    /\ g_typed = 0
    /\ g_sleeps = 0
    /\ g_all_login = TRUE

\* A call of generate_sora_video: last_error = "", first value of attempt.
InitSora ==
    /\ s_pc = "open"
    /\ s_attempt = 1
    /\ s_page = 0
    /\ s_drafts_page = 0
    /\ s_last_error = << >>
    /\ s_existing_drafts = {Unbound}
    /\ s_create_clicked = FALSE
    /\ s_new_draft_href = Unbound
    /\ s_video_src = Unbound
    /\ s_result = NoResult
    /\ s_elapsed = 0
    /\ s_open = {}
    /\ s_tabs = 0
    /\ s_server \in InitialListings
    /\ s_dom = << >>
    /\ s_drafts_dom = << >>
    /\ s_appeared = 0
    /\ s_written = FALSE
    /\ s_clicks = 0
    /\ s_commits = 0
    /\ s_commit_attempt = 0
    /\ s_snapshot_attempt = 0
    /\ s_scene_cards_found = "Unbound"
    /\ s_typed = 0
    /\ s_disabled = 0
    /\ s_duration = ""
    /\ s_sleeps = 0
    /\ s_all_login = TRUE
    /\ s_true_at = -1
    /\ GrokIdle
    /\ BrowserIdle
    /\ ParseIdle
    /\ RaceIdle

NextSora ==
    \/ S_Open
    \/ S_AuthCheck
    \/ S_SetDuration
    \/ S_WaitTextarea
    \/ S_TypePrompt
    \/ S_WaitSceneCards
    \/ S_SnapOpen
    \/ S_SnapRead
    \/ S_FindCreate
    \/ S_ClickCreate
    \/ S_GotoDrafts
    \/ S_PollCheck
    \/ S_PollReload
    \/ S_PollSleep
    \/ S_OpenDetail
    \/ S_FindVideo
    \/ S_VideoSrc
    \/ S_Download
    \/ S_DraftAppears

SpecSora == InitSora /\ [][NextSora]_vars

(***************************************************************************)
(* generate_sora_video: properties.                                        *)
(***************************************************************************)
AwaitNewEntry == {"goto_drafts", "poll", "poll_reload", "poll_sleep"}
TimedOut == << "timed", "out" >>
IsNotUrlMsg(msg) == StartsWith(msg, << "Video", "src", "is", "not", "a", "URL:" >>)

\* C1: during one call the Create click is executed (create_btn.click()
\* returns) at most once, counted over all attempts.
C1_CommitAtMostOnce == s_clicks <= 1

\* C2: once the Create click has returned, no step starts another attempt,
\* whatever is raised afterwards.
C2_NoAttemptAfterCommit == [][s_clicks >= 1 => s_attempt' = s_attempt]_vars

\* C3: when _poll_drafts_for_new returns None (deadline elapsed with no
\* identifier outside the snapshot), the call has returned success=false with
\* an error containing "timed out", and afterwards no attempt is started and
\* Create is not clicked again.
C3_TimeoutIsTerminal ==
    /\ [](s_new_draft_href = None =>
            /\ s_pc = "done"
            /\ ~s_result.success
            /\ Contains(s_result.error, TimedOut))
    /\ [][s_new_draft_href = None =>
            (s_commits' = s_commits /\ s_attempt' = s_attempt)]_vars

\* C3 witness: the timeout happens in the second attempt.
C3_Witness ==
    /\ s_pc = "done"
    /\ s_new_draft_href = None
    /\ s_attempt = 2
    /\ s_commits = 1
    /\ s_existing_drafts # {}

\* C4: a missing <video> element or a video src that is not an http URL,
\* detected after commit, ends the call with a failure in the attempt in
\* which it is detected.
C4_DetectedPostCommitFailureIsTerminal ==
    (s_last_error = SoraNoVideoMsg \/ IsNotUrlMsg(s_last_error)) =>
        /\ s_pc = "done"
        /\ ~s_result.success
        /\ s_commit_attempt = s_attempt

\* C4 witness: a non-URL src detected in an attempt that is not the last.
C4_Witness ==
    /\ s_pc = "done"
    /\ IsNotUrlMsg(s_last_error)
    /\ s_video_src # << >>
    /\ s_attempt < RETRY_ATTEMPTS
    /\ s_commits = 1

\* C5: the identifier _poll_drafts_for_new returns is in the listing it read
\* and not in the snapshot; None leads to a failure; a success was reached
\* with such an identifier, never with an empty or a snapshot one.
C5_NewDraftIsInDifference ==
    /\ s_pc = "open_detail" =>
         /\ s_new_draft_href \in (Range(s_dom) \ s_existing_drafts)
         /\ s_new_draft_href # << >>
    /\ s_new_draft_href = None => (s_pc = "done" /\ ~s_result.success)
    /\ s_result.success =>
         /\ s_new_draft_href \notin (s_existing_drafts \cup {None, Unbound, << >>})
         /\ s_new_draft_href \in Range(s_dom)

\* C5 witness: an identifier is returned from a listing that also holds
\* snapshot entries, the first tile being a snapshot entry.
C5_Witness ==
    /\ s_pc = "open_detail"
    /\ Len(s_dom) >= 2
    /\ s_dom[1] \in s_existing_drafts
    /\ s_new_draft_href # s_dom[1]

\* C6: a Create click takes effect only in an attempt that has already
\* assigned existing_drafts, and the wait for a new entry runs only in an
\* attempt whose Create click has returned.
C6_SnapshotBeforeCommit ==
    /\ [][s_commits' > s_commits =>
            (s_snapshot_attempt = s_attempt /\ Unbound \notin s_existing_drafts)]_vars
    /\ [](s_pc \in AwaitNewEntry =>
            (s_create_clicked /\ s_commit_attempt = s_attempt
             /\ s_snapshot_attempt = s_attempt))

\* C6 witness: the commit of a second attempt, polling under way.
C6_Witness ==
    /\ s_pc = "poll"
    /\ s_attempt = 2
    /\ s_commit_attempt = 2
    /\ s_commits = 1

\* C7: no step taken while waiting for the new entry changes
\* existing_drafts.
C7_SnapshotImmutableWhileWaiting ==
    [][(s_pc \in AwaitNewEntry) => (s_existing_drafts' = s_existing_drafts)]_vars

\* C7 witness: a poll cycle has reloaded a listing that grew since the
\* snapshot.
C7_Witness ==
    /\ s_pc = "poll"
    /\ s_elapsed >= 1
    /\ s_existing_drafts # {}
    /\ ~(Range(s_dom) \subseteq s_existing_drafts)

\* C9: when the call has returned, the storyboard page and the drafts page it
\* obtained from get_page are closed.
C9_NoPageLeftOpen ==
    s_pc = "done" => (s_page \notin s_open /\ s_drafts_page \notin s_open)

(***************************************************************************)
(* generate_grok_image: text and the remote service.                       *)
(***************************************************************************)
GrokOutputPath == << "/out/image.png" >>

GrokLoginMsg ==
    << "Redirected", "to", "login.", "Log", "in", "to", "X/Grok", "first",
       "(SMI_HEADLESS=false)" >>
GrokEditorMsg ==
    << "Could", "not", "find", "prompt", "editor", "on", "Grok", "Imagine",
       "page" >>
GrokSubmitMsg == << "Could", "not", "find", "Submit", "button" >>
GrokNoImageMsg ==
    << "No", "full-res", "image", "found", "after", "generation" >>

\* The src attribute of one img[alt="Generated image"]: whether it starts
\* with "data:image/", its length in characters, and the text after the
\* first comma.
ImgSrcs ==
    { [data |-> TRUE,  len |-> 40000,  encoded |-> "blur"],
      [data |-> TRUE,  len |-> 150000, encoded |-> "edge"],
      [data |-> TRUE,  len |-> 150001, encoded |-> "full"],
      [data |-> TRUE,  len |-> 250000, encoded |-> "full2"],
      [data |-> FALSE, len |-> 200000, encoded |-> "url"],
      [data |-> FALSE, len |-> 0,      encoded |-> ""] }

\* What the page may show after one render: up to two result images.
Renderings ==
    { << >> } \cup { << a >> : a \in ImgSrcs }
              \cup { << a, b >> : a \in ImgSrcs, b \in ImgSrcs }

\* base64.b64decode(encoded)
B64Decode(encoded) == << "bytes", encoded >>

\* One scan of _poll_for_loaded_image: the decoded payload of the first image
\* in DOM order that is a data URI longer than the threshold, or None.
RECURSIVE ScanImgsAtLeast(_)
ScanImgsAtLeast(imgs) ==
    IF imgs = << >>
      THEN None
      ELSE LET src == Head(imgs)
           IN IF src.data /\ src.len >= FULL_RES_MIN_LEN
                THEN B64Decode(src.encoded)
                ELSE ScanImgsAtLeast(Tail(imgs))

RECURSIVE ScanImgs(_)
ScanImgs(imgs) ==
    IF imgs = << >>
      THEN None
      ELSE LET src == Head(imgs)
           IN IF src.data /\ src.len > FULL_RES_MIN_LEN
                THEN B64Decode(src.encoded)
                ELSE ScanImgs(Tail(imgs))

(***************************************************************************)
(* generate_grok_image: helpers.                                           *)
(***************************************************************************)
G_NextAttempt ==
    /\ g_attempt' = g_attempt + 1
    /\ g_pc' = "open"
    /\ g_page' = 0
    /\ UNCHANGED g_result

G_ReturnFailure(last_error) ==
    /\ g_pc' = "done"
    /\ g_result' = FailureResult(last_error)
    /\ UNCHANGED << g_attempt, g_page >>

G_Step(pc, page, open) ==
    /\ g_pc' = pc
    /\ g_page' = page
    /\ g_open' = open
    /\ UNCHANGED << g_attempt, g_last_error, g_result, g_sleeps,
                    g_all_login >>

\* The phases of one attempt, in the order of the statements of the try
\* block.
GrokPhases ==
    << "open", "auth", "wait_editor", "type_prompt", "find_submit",
       "click_submit", "poll", "save" >>
PhaseAfter(pc) ==
    IF \E i \in 1..(Len(GrokPhases) - 1) : GrokPhases[i] = pc
      THEN GrokPhases[(CHOOSE i \in 1..Len(GrokPhases) : GrokPhases[i] = pc) + 1]
      ELSE "done"

\* A failed check that neither continues nor breaks.
G_RetryableFallsThrough(msg) ==
    /\ g_last_error' = msg
    /\ g_all_login' = (g_all_login /\ msg = GrokLoginMsg)
    /\ g_pc' = PhaseAfter(g_pc)
    /\ UNCHANGED << g_open, g_sleeps, g_attempt, g_page, g_result >>

\* last_error = msg; if attempt < RETRY_ATTEMPTS: close_page(page); sleep;
\* continue; else break
G_RetryableBreaks(msg) ==
    /\ g_last_error' = msg
    /\ g_all_login' = (g_all_login /\ msg = GrokLoginMsg)
    /\ g_open' = g_open
    /\ g_sleeps' = g_sleeps
    /\ G_ReturnFailure(msg)
G_Retryable(msg) ==
    /\ g_last_error' = msg
    /\ g_all_login' = (g_all_login /\ msg = GrokLoginMsg)
    /\ IF RetryLeft(g_attempt)
         THEN /\ g_open' = ClosePage(g_open, g_page)
              /\ g_sleeps' = g_sleeps + 1
              /\ G_NextAttempt
         ELSE /\ g_open' = g_open
              /\ g_sleeps' = g_sleeps
              /\ G_ReturnFailure(msg)

\* except Exception as e: last_error = str(e); if page: close_page(page);
\* if attempt < RETRY_ATTEMPTS: sleep
G_Except(e, open) ==
    /\ g_last_error' = e
    /\ g_open' = IF g_page # 0 THEN ClosePage(open, g_page) ELSE open
    /\ g_all_login' = FALSE
    /\ g_sleeps' = IF RetryLeft(g_attempt) THEN g_sleeps + 1 ELSE g_sleeps
    /\ IF LoopHasNext(g_attempt)
         THEN G_NextAttempt
         ELSE G_ReturnFailure(e)

\* The steps inside `try:` ... `except Exception`.
GrokTryBlock ==
    { "open", "auth", "wait_editor", "type_prompt", "find_submit",
      "click_submit", "poll", "save" }

\* An exception no handler of the coroutine catches reaches its caller.
G_Escape(open) ==
    /\ g_pc' = "raised"
    /\ g_open' = open
    /\ UNCHANGED << g_attempt, g_page, g_last_error, g_result, g_sleeps,
                    g_all_login >>

\* A browser operation of step g_pc raises e.
G_Raise(e, open) ==
    IF g_pc \in GrokTryBlock THEN G_Except(e, open) ELSE G_Escape(open)

g_remote == << g_imgs, g_renders, g_written, g_submits, g_typed >>

(***************************************************************************)
(* generate_grok_image: the steps.                                         *)
(***************************************************************************)
\* page = await get_page(GROK_URL): a fresh tab shows no result image.
G_Open ==
    /\ g_pc = "open"
    /\ \E o \in GetPageOutcomes :
         \/ /\ o = "ok"
            /\ g_tabs' = g_tabs + 1
            /\ g_imgs' = << >>
            /\ G_Step("auth", g_tabs + 1, g_open \cup {g_tabs + 1})
         \/ /\ o = "raise_no_tab"
            /\ UNCHANGED << g_tabs, g_imgs >>
            /\ \E e \in ExcMsgs : G_Raise(e, g_open)
         \/ /\ o = "raise_tab_open"
            /\ g_tabs' = g_tabs + 1
            /\ UNCHANGED g_imgs
            /\ \E e \in ExcMsgs : G_Raise(e, g_open \cup {g_tabs + 1})
    /\ UNCHANGED << g_image_data, g_elapsed, g_renders, g_written, g_submits,
                    g_typed, not_grok >>

\* if "login" in page.url or "oauth" in page.url
G_AuthCheck ==
    /\ g_pc = "auth"
    /\ \E login \in BOOLEAN, oauth \in BOOLEAN :
         IF login \/ oauth
           THEN G_Retryable(GrokLoginMsg)
           ELSE G_Step("wait_editor", g_page, g_open)
    /\ UNCHANGED << g_image_data, g_elapsed, g_tabs, g_remote, not_grok >>

\* found = await wait_for_element(page, editor_sel, timeout_ms=15_000)
G_WaitEditor ==
    /\ g_pc = "wait_editor"
    /\ \E found \in BOOLEAN :
         IF found
           THEN G_Step("type_prompt", g_page, g_open)
           ELSE G_Retryable(GrokEditorMsg)
    /\ UNCHANGED << g_image_data, g_elapsed, g_tabs, g_remote, not_grok >>

\* query_selector, editor.click, Control+a, Backspace, keyboard.type
G_TypePrompt ==
    /\ g_pc = "type_prompt"
    /\ \E o \in {"ok", "raise_before_type", "raise_after_type"} :
         \/ /\ o = "ok"
            /\ g_typed' = g_typed + 1
            /\ G_Step("find_submit", g_page, g_open)
         \/ /\ o = "raise_before_type"
            /\ UNCHANGED g_typed
            /\ \E e \in ExcMsgs : G_Raise(e, g_open)
         \/ /\ o = "raise_after_type"
            /\ g_typed' = g_typed + 1
            /\ \E e \in ExcMsgs : G_Raise(e, g_open)
    /\ UNCHANGED << g_image_data, g_elapsed, g_tabs, g_imgs, g_renders,
                    g_written, g_submits, not_grok >>

\* submit = await page.query_selector('button[aria-label="Submit"]')
G_FindSubmit ==
    /\ g_pc = "find_submit"
    /\ \/ \E submit \in BOOLEAN :
            IF submit
              THEN G_Step("click_submit", g_page, g_open)
              ELSE G_Retryable(GrokSubmitMsg)
       \/ \E e \in ExcMsgs : G_Raise(e, g_open)
    /\ UNCHANGED << g_image_data, g_elapsed, g_tabs, g_remote, not_grok >>

\* await submit.click(); await asyncio.sleep(20); _poll_for_loaded_image
\* computes its deadline.
G_ClickSubmit ==
    /\ g_pc = "click_submit"
    /\ \/ /\ g_submits' = g_submits + 1
          /\ g_elapsed' = 0
          /\ G_Step("poll", g_page, g_open)
       \/ /\ UNCHANGED << g_submits, g_elapsed >>
          /\ \E e \in ExcMsgs : G_Raise(e, g_open)
    /\ UNCHANGED << g_image_data, g_tabs, g_imgs, g_renders, g_written,
                    g_typed, not_grok >>

\* _poll_for_loaded_image, the loop test and one cycle, and what
\* generate_grok_image does with None.
G_Poll ==
    /\ g_pc = "poll"
    /\ IF BeforeDeadline(g_elapsed, GrokTimeoutTicks)
         THEN \/ LET image_data == ScanImgs(g_imgs)
                 IN IF image_data # None
                      THEN /\ g_image_data' = image_data
                           /\ UNCHANGED g_elapsed
                           /\ G_Step("save", g_page, g_open)
                      ELSE /\ UNCHANGED g_image_data
                           /\ \E d \in OpTicks :
                                g_elapsed' =
                                    Min(g_elapsed + 1 + d, GrokTimeoutTicks)
                           /\ G_Step("poll", g_page, g_open)
              \/ /\ UNCHANGED << g_image_data, g_elapsed >>
                 /\ \E e \in ExcMsgs : G_Raise(e, g_open)
         ELSE /\ g_image_data' = None
              /\ UNCHANGED g_elapsed
              /\ G_Retryable(GrokNoImageMsg)
    /\ UNCHANGED << g_tabs, g_remote, not_grok >>

\* What the file holds when write_bytes raised after opening it.
PartialBytes == << "bytes", "partial" >>

\* out.write_bytes(image_data); await close_page(page); return.
\* write_bytes opens the file for writing and writes: it may raise with the
\* file created and part of the content in it.
G_Save ==
    /\ g_pc = "save"
    /\ \/ /\ g_written' = g_image_data
          /\ g_pc' = "done"
          /\ g_open' = ClosePage(g_open, g_page)
          /\ g_result' = SuccessResult(GrokOutputPath)
          /\ UNCHANGED << g_attempt, g_page, g_last_error, g_sleeps,
                          g_all_login >>
       \/ /\ g_written' \in { g_written, PartialBytes }
          /\ \E e \in ExcMsgs : G_Raise(e, g_open)
    /\ UNCHANGED << g_image_data, g_elapsed, g_tabs, g_imgs, g_renders,
                    g_submits, g_typed, not_grok >>

\* The page renders, or re-renders, its result images after a submit.
G_Render ==
    /\ g_pc = "poll"
    /\ g_renders < MaxRenders
    /\ g_renders' = g_renders + 1
    /\ \E imgs \in Renderings : imgs # g_imgs /\ g_imgs' = imgs
    /\ UNCHANGED << g_pc, g_attempt, g_page, g_last_error, g_image_data,
                    g_result, g_elapsed, g_open, g_tabs, g_written,
                    g_submits, g_typed, g_sleeps, g_all_login, not_grok >>

SoraIdle ==
    /\ s_pc = "idle"
    /\ s_attempt = 0
    /\ s_page = 0
    /\ s_drafts_page = 0
    /\ s_last_error = << >>
    /\ s_existing_drafts = {Unbound}
    /\ s_create_clicked = FALSE
    /\ s_new_draft_href = Unbound
    /\ s_video_src = Unbound
    /\ s_result = NoResult
    /\ s_elapsed = 0
    /\ s_open = {}
    /\ s_tabs = 0
    /\ s_server = << >>
    /\ s_dom = << >>
    /\ s_drafts_dom = << >>
    /\ s_appeared = 0
    /\ s_written = FALSE
    /\ s_clicks = 0
    /\ s_commits = 0
    /\ s_commit_attempt = 0
    /\ s_snapshot_attempt = 0
    /\ s_scene_cards_found = "Unbound"
    /\ s_typed = 0
    /\ s_disabled = 0
    /\ s_duration = ""
    /\ s_sleeps = 0
    /\ s_all_login = TRUE
    /\ s_true_at = -1

\* A call of generate_grok_image: last_error = "", first value of attempt.
InitGrok ==
    /\ g_pc = "open"
    /\ g_attempt = 1
    /\ g_page = 0
    /\ g_last_error = << >>
    /\ g_image_data = Unbound
    /\ g_result = NoResult
    /\ g_elapsed = 0
    /\ g_open = {}
    /\ g_tabs = 0
    /\ g_imgs = << >>
    /\ g_renders = 0
    /\ g_written = << >>
    /\ g_submits = 0
    /\ g_typed = 0
    /\ g_sleeps = 0
    /\ g_all_login = TRUE
    /\ SoraIdle
    /\ BrowserIdle
    /\ ParseIdle
    /\ RaceIdle

NextGrok ==
    \/ G_Open
    \/ G_AuthCheck
    \/ G_WaitEditor
    \/ G_TypePrompt
    \/ G_FindSubmit
    \/ G_ClickSubmit
    \/ G_Poll
    \/ G_Save
    \/ G_Render

SpecGrok == InitGrok /\ [][NextGrok]_vars

(***************************************************************************)
(* generate_grok_image: properties.                                        *)
(***************************************************************************)
\* C8: when the call has returned, the page it obtained from get_page in its
\* last attempt is closed.
C8_NoPageLeftOpen == g_pc = "done" => g_page \notin g_open

\* C10: attempt stays within 1..RETRY_ATTEMPTS; a success is the return of
\* the call; and every step that ends an attempt without success starts
\* attempt k+1 when k < RETRY_ATTEMPTS and returns the failure only when
\* k = RETRY_ATTEMPTS.
C10_BoundedRetry ==
    /\ [](g_attempt \in 1..RETRY_ATTEMPTS)
    /\ [](g_result.success => g_pc = "done")
    /\ [][(g_pc' \in {"open", "done"} /\ ~g_result'.success) =>
            IF g_attempt < RETRY_ATTEMPTS
              THEN g_attempt' = g_attempt + 1 /\ g_pc' = "open"
              ELSE g_attempt' = g_attempt /\ g_pc' = "done"]_vars
    /\ [][g_attempt' # g_attempt =>
            (g_attempt' = g_attempt + 1 /\ g_result = NoResult)]_vars

\* C10 witness: the poll deadline ran out in attempt 1 and attempt 2
\* succeeded.
C10_Witness ==
    /\ g_pc = "done"
    /\ g_result.success
    /\ g_attempt = 2
    /\ g_last_error = GrokNoImageMsg

(***************************************************************************)
(* Either workflow: one call of generate_sora_video or of                  *)
(* generate_grok_image.                                                    *)
(***************************************************************************)
InitWorkflows == InitSora \/ InitGrok
NextWorkflows == NextSora \/ NextGrok
SpecWorkflows == InitWorkflows /\ [][NextWorkflows]_vars

\* The img src attributes _poll_for_loaded_image accepts.
FullRes(src) == src.data /\ src.len > FULL_RES_MIN_LEN

\* C11: when attempt 1 of the image workflow is redirected to login, a
\* second attempt starts on a new page; a call that ends in attempt 2 with
\* no failure but that redirect succeeds and returns the output path after
\* exactly two attempts, two pages opened, one prompt typed and submitted
\* once, the file holding the decoded full-resolution payload; there is no
\* third attempt.
C11_LoginThenFullRes ==
    /\ []((g_pc = "done" /\ g_attempt = 2 /\ g_all_login) =>
            /\ g_result = SuccessResult(GrokOutputPath)
            /\ g_last_error = GrokLoginMsg
            /\ g_tabs = 2
            /\ g_typed = 1
            /\ g_submits = 1
            /\ g_sleeps = 1
            /\ g_open = {}
            /\ \E i \in 1..Len(g_imgs) :
                  FullRes(g_imgs[i]) /\ g_written = B64Decode(g_imgs[i].encoded))
    /\ [][(g_pc = "auth" /\ g_attempt = 1 /\ g_last_error' = GrokLoginMsg) =>
            (g_pc' = "open" /\ g_attempt' = 2 /\ g_open' = {})]_vars
    /\ [][g_pc = "done" => UNCHANGED vars]_vars

\* C11 witness: redirected to login in attempt 1, the first scan of attempt
\* 2 finds a full-resolution image, and the call has returned.
C11_Witness ==
    /\ g_pc = "done"
    /\ g_attempt = 2
    /\ g_all_login
    /\ g_last_error = GrokLoginMsg
    /\ g_result.success
    /\ g_elapsed = 0

\* The steps of an attempt before the Create click.
SoraPreCommit ==
    { "open", "auth", "configure", "wait_textarea", "type_prompt",
      "scene_cards", "snap_open", "snap_read", "find_create" }

\* A step that ends the attempt while it is in one of the steps of `pcs`.
S_FailsIn(pcs) ==
    /\ s_pc \in pcs
    /\ \/ s_pc' \in {"done", "raised"}
       \/ s_pc' = "open" /\ (s_pc # "open" \/ s_attempt' # s_attempt)
       \/ s_last_error' # s_last_error

\* C12: in the video workflow a failure before the Create click of attempt
\* k (login redirect, textarea not found, Create button not found, or an
\* exception in one of these steps) starts attempt k+1 after one retry
\* delay when k < RETRY_ATTEMPTS, and ends the call with a failure only
\* when k = RETRY_ATTEMPTS.
C12_PreCommitFailureRetries ==
    [][S_FailsIn(SoraPreCommit) =>
         IF s_attempt < RETRY_ATTEMPTS
           THEN /\ s_attempt' = s_attempt + 1
                /\ s_pc' = "open"
                /\ s_sleeps' = s_sleeps + 1
                /\ s_result' = NoResult
           ELSE /\ s_attempt' = s_attempt
                /\ s_pc' = "done"
                /\ ~s_result'.success
                /\ s_sleeps' = s_sleeps]_vars

\* C12 witness: the Create button was not found in attempt 1, nothing was
\* committed, and attempt 2 is about to open its page after one delay.
C12_Witness ==
    /\ s_pc = "open"
    /\ s_attempt = 2
    /\ s_last_error = SoraCreateMsg
    /\ s_commits = 0
    /\ s_sleeps = 1

\* The messages a failure in step pc of the video workflow records.
SoraPhaseMsgs(pc) ==
    CASE pc = "auth" -> { SoraLoginMsg }
      [] pc = "wait_textarea" -> { SoraTextareaMsg }
      [] pc = "find_create" -> { SoraCreateMsg } \cup ExcMsgs
      [] OTHER -> ExcMsgs

\* The messages a failure in step pc of the image workflow records.
GrokPhaseMsgs(pc) ==
    CASE pc = "auth" -> { GrokLoginMsg }
      [] pc = "wait_editor" -> { GrokEditorMsg }
      [] pc = "find_submit" -> { GrokSubmitMsg } \cup ExcMsgs
      [] pc = "poll" -> { GrokNoImageMsg } \cup ExcMsgs
      [] OTHER -> ExcMsgs

\* C13: when a call returns because its last attempt failed (in the video
\* workflow: before the Create click), that attempt is attempt
\* RETRY_ATTEMPTS, and the error of the result is "Failed after N attempts: "
\* with N = RETRY_ATTEMPTS followed by the message the failing step of
\* that attempt recorded.
C13_ExhaustionReportsLastError ==
    /\ [][(s_pc \in SoraPreCommit /\ s_pc' = "done") =>
            /\ s_attempt = RETRY_ATTEMPTS
            /\ s_last_error' \in SoraPhaseMsgs(s_pc)
            /\ s_result'.success = FALSE
            /\ s_result'.error =
                 << "Failed", "after", DecStr(s_attempt), "attempts:" >>
                    \o s_last_error']_vars
    /\ [][(g_pc \in GrokTryBlock /\ g_pc' = "done" /\ ~g_result'.success) =>
            /\ g_attempt = RETRY_ATTEMPTS
            /\ g_last_error' \in GrokPhaseMsgs(g_pc)
            /\ g_result'.error =
                 << "Failed", "after", DecStr(g_attempt), "attempts:" >>
                    \o g_last_error']_vars

\* C13 witness: three attempts of the video workflow typed the prompt, none
\* clicked Create, and the call returned the message of the third.
C13_Witness ==
    /\ s_pc = "done"
    /\ s_attempt = RETRY_ATTEMPTS
    /\ s_typed = RETRY_ATTEMPTS
    /\ s_commits = 0
    /\ s_last_error = SoraCreateMsg
    /\ Contains(s_result.error, SoraCreateMsg)

\* The messages of the failures that `break` out of the loop after the
\* Create click.
SoraAbortMsg(msg) ==
    \/ msg = SoraTimedOutMsg
    \/ msg = SoraNoVideoMsg
    \/ IsNotUrlMsg(msg)

\* C14: a call of the video workflow that stopped retrying because Create
\* had been clicked returns the failure of that attempt as it is: the error
\* holds the message of the failing phase, and an attempt count the error
\* mentions is the number of attempts the call executed.
C14_AbortReturnsFailureAsIs ==
    (s_pc = "done" /\ ~s_result.success /\ SoraAbortMsg(s_last_error)) =>
        /\ Contains(s_result.error, s_last_error)
        /\ StartsWith(s_result.error, << "Failed", "after" >>) =>
              s_result.error[3] = DecStr(s_attempt)

\* A result dictionary as the two workflows build it.
IsResultDict(result) ==
    /\ DOMAIN result = { "success", "path", "error" }
    /\ result.success \in BOOLEAN
    /\ result # NoResult

\* C15: no exception leaves generate_sora_video or generate_grok_image:
\* whichever browser operation raises, in whichever attempt, the call does
\* not end by raising, and when it has ended it has returned a result
\* dictionary.
C15_NoExceptionEscapes ==
    /\ s_pc # "raised"
    /\ g_pc # "raised"
    /\ s_pc = "done" => IsResultDict(s_result)
    /\ g_pc = "done" => IsResultDict(g_result)

\* C15 witness: the third attempt of the video workflow clicked Create, a
\* later operation raised, nothing was written, and the call returned a
\* failure with the text of the exception.
C15_Witness ==
    /\ s_pc = "done"
    /\ s_attempt = RETRY_ATTEMPTS
    /\ s_commit_attempt = RETRY_ATTEMPTS
    /\ s_last_error \in ExcMsgs
    /\ s_result = FailureResult(s_last_error)
    /\ ~s_written

\* The shape of a returned dictionary: "" is << >>, and a dictionary with no
\* "error" key has error = None.
WellFormed(result, output_path) ==
    IF result.success
      THEN result.path = output_path /\ result.error = None
      ELSE result.path = << >> /\ result.error \notin { None, << >> }

\* C16: every result a workflow returns is well-formed: with success true
\* the path is the requested output path and there is no error; with
\* success false the path is empty and an error text is present.
C16_ResultWellFormed ==
    /\ s_pc = "done" => WellFormed(s_result, OutputPath)
    /\ g_pc = "done" => WellFormed(g_result, GrokOutputPath)

\* C16 witness: the image workflow has returned a failure after its last
\* attempt found no full-resolution image.
C16_Witness ==
    /\ g_pc = "done"
    /\ ~g_result.success
    /\ g_attempt = RETRY_ATTEMPTS
    /\ g_last_error = GrokNoImageMsg
    /\ g_result.path = << >>

C18_PollingBound ==
    /\ (s_pc = "open_detail" /\ s_true_at >= 0) =>
           s_elapsed <= s_true_at + 1
    /\ (s_pc = "done" /\ s_new_draft_href = None
                     /\ s_last_error = SoraTimedOutMsg) =>
           ~(s_true_at >= 0 /\ s_true_at + 1 < SoraTimeoutTicks)

\* C19: a call in which every attempt was redirected to login has made
\* exactly RETRY_ATTEMPTS attempts, each on a page of its own with one retry
\* delay between two attempts, has typed no prompt, clicked neither Submit
\* nor Create, and returns a failure whose error is the login message.
C19_AllAttemptsLoginRedirected ==
    /\ (s_pc = "done" /\ ~s_result.success /\ s_all_login) =>
          /\ s_attempt = RETRY_ATTEMPTS
          /\ s_tabs = RETRY_ATTEMPTS
          /\ s_sleeps = RETRY_ATTEMPTS - 1
          /\ s_typed = 0
          /\ s_clicks = 0
          /\ s_commits = 0
          /\ s_snapshot_attempt = 0
          /\ Contains(s_result.error, << "Redirected", "to", "login." >>)
    /\ (g_pc = "done" /\ ~g_result.success /\ g_all_login) =>
          /\ g_attempt = RETRY_ATTEMPTS
          /\ g_tabs = RETRY_ATTEMPTS
          /\ g_sleeps = RETRY_ATTEMPTS - 1
          /\ g_typed = 0
          /\ g_submits = 0
          /\ Contains(g_result.error, << "Redirected", "to", "login." >>)

\* C19 witness: the image workflow has returned after three attempts that
\* all ended at the login check.
C19_Witness ==
    /\ g_pc = "done"
    /\ ~g_result.success
    /\ g_all_login
    /\ g_last_error = GrokLoginMsg
    /\ g_tabs = RETRY_ATTEMPTS

\* C20: when _wait_for_scene_cards reaches its deadline with no scene card
\* detected, the attempt does not fail: the step that leaves the wait goes
\* on to the snapshot of the drafts listing in the same attempt, on the
\* same page, with no error recorded, as the step does that detected the
\* cards.
C20_SceneCardTimeoutProceeds ==
    /\ [][(s_pc = "scene_cards" /\ s_elapsed >= SceneTimeoutTicks
                                /\ s_pc' # s_pc) =>
            /\ s_scene_cards_found' = "False"
            /\ s_pc' = "snap_open"
            /\ s_attempt' = s_attempt
            /\ s_page' = s_page
            /\ s_open' = s_open
            /\ s_last_error' = s_last_error
            /\ s_result' = NoResult]_vars
    /\ [][(s_pc = "scene_cards" /\ s_scene_cards_found' # s_scene_cards_found) =>
            (s_pc' = "snap_open" /\ s_attempt' = s_attempt)]_vars

\* C20 witness: attempt 1 found no scene card before the deadline, took the
\* snapshot, and its Create click has returned.
C20_Witness ==
    /\ s_pc = "goto_drafts"
    /\ s_attempt = 1
    /\ s_scene_cards_found = "False"
    /\ s_snapshot_attempt = 1
    /\ s_commit_attempt = 1
    /\ s_clicks = 1

\* The step that finds no Create button, and the step that clicks one that
\* is disabled.
S_CreateAbsent ==
    /\ s_pc = "find_create"
    /\ s_pc' \in {"open", "done"}
    /\ s_last_error' = SoraCreateMsg
S_CreateDisabled ==
    /\ s_pc = "click_create"
    /\ s_disabled' # s_disabled

C22_ConfigureIsBestEffort ==
    [][(s_pc = "configure" /\ s_pc' # s_pc) =>
         /\ s_duration' \in SetDurationOutcomes
         /\ s_pc' = "wait_textarea"
         /\ s_attempt' = s_attempt
         /\ s_page' = s_page
         /\ s_open' = s_open
         /\ s_last_error' = s_last_error
         /\ s_sleeps' = s_sleeps
         /\ s_result' = NoResult]_vars

\* C22 witness: an operation inside _set_duration raised in attempt 1 and
\* the attempt is at the wait for the textarea, its page open, no error
\* recorded.
C22_Witness ==
    /\ s_pc = "wait_textarea"
    /\ s_duration = "raised"
    /\ s_attempt = 1
    /\ s_last_error = << >>
    /\ s_page \in s_open


(***************************************************************************)
(* browser.py: the session manager and the page helpers. One request is    *)
(* served at a time.                                                       *)
(***************************************************************************)
\* How a call ended: it returned (num: a session or a tab, flag: a bool,
\* None or a dictionary, msg: the "message" of a dictionary) or it raised
\* (msg: str(e)).
Val(kind, num, flag, msg) ==
    [kind |-> kind, num |-> num, flag |-> flag, msg |-> msg]
Returned(num, flag, msg) == Val("return", num, flag, msg)
Raised(e) == Val("raise", 0, "", e)
NoVal == Val("none", 0, "", << >>)

\* str(e) of what Playwright raises on a closed page, context or browser.
TargetClosedMsg ==
    << "Target", "page,", "context", "or", "browser", "has", "been",
       "closed" >>

\* check_auth: the three messages.
SessionActiveMsg == << "Session", "active", "at", "<current_url>" >>
NotAuthenticatedMsg ==
    << "Not", "authenticated.", "Please", "log", "in", "manually", "at",
       "<url>" >>
ErrorCheckingAuthMsg(e) == << "Error", "checking", "auth:" >> \o e

\* The functions of browser.py and server.py a caller may invoke, and the
\* calls each makes before its first own operation.
Requests ==
    { "get_context", "shutdown", "get_page", "close_page",
      "wait_for_element", "check_auth", "check_browser_session" }
CheckAuthEntry == << "check_auth", "get_page", "get_context" >>
EntryStack(op) ==
    CASE op = "get_page" -> << "get_page", "get_context" >>
      [] op = "check_auth" -> CheckAuthEntry
      [] op = "check_browser_session" ->
           << "check_browser_session" >> \o CheckAuthEntry
      [] OTHER -> << op >>
EntryPc(op) ==
    CASE op = "shutdown" -> "sd_context"
      [] op = "close_page" -> "cp_close"
      [] op = "wait_for_element" -> "we_wait"
      [] OTHER -> "gc_check"

Caller == b_stack[Len(b_stack) - 1]
Pop == SubSeq(b_stack, 1, Len(b_stack) - 1)

b_globals == << b_playwright, b_context >>
b_locals == << b_arg, b_page, b_found, b_status >>
b_browser == << b_alive, b_running, b_open >>
b_history == << b_sessions, b_engines, b_starts, b_tabs >>

\* The function on top of the stack ends with val.
B_Finish(val) ==
    /\ b_val' = val
    /\ b_pc' = "return"
    /\ UNCHANGED b_stack

\* A caller invokes one of the functions; the locals of the call are fresh.
B_Request ==
    /\ b_pc = "idle"
    /\ b_calls < MaxCalls
    /\ b_calls' = b_calls + 1
    /\ \E op \in Requests :
         /\ b_stack' = EntryStack(op)
         /\ b_pc' = EntryPc(op)
         /\ IF op \in { "close_page", "wait_for_element" }
              THEN b_tabs > 0 /\ b_arg' \in 1..b_tabs
              ELSE b_arg' = 0
    /\ b_page' = 0
    /\ b_found' = "Unbound"
    /\ b_status' = << >>
    /\ b_ret' = NoVal
    /\ UNCHANGED << b_globals, b_val, b_browser, b_history, not_browser >>

\* `_context.pages` on the stored session: it returns on a running session;
\* on one that is gone it returns or raises.
PagesMayRaiseAlways(context) == TRUE
PagesMayRaise(context) == context \notin b_alive

\* get_context: except Exception: _context = None
DiscardHandleKeeps(context) == context
DiscardHandle(context) == 0

\* get_context: if _context is not None: try: _context.pages; return
\* _context; except Exception: _context = None
B_GcCheck ==
    /\ b_pc = "gc_check"
    /\ IF b_context # 0
         THEN \/ /\ B_Finish(Returned(b_context, "", << >>))
                 /\ UNCHANGED b_context
              \/ /\ PagesMayRaise(b_context)
                 /\ b_context' = DiscardHandle(b_context)
                 /\ b_pc' = "gc_ensure"
                 /\ UNCHANGED << b_stack, b_val >>
         ELSE /\ b_pc' = "gc_ensure"
              /\ UNCHANGED << b_context, b_stack, b_val >>
    /\ UNCHANGED << b_playwright, b_locals, b_ret, b_browser, b_history,
                    b_calls, not_browser >>

\* _ensure_playwright: if _playwright is None
EnsureStartsAlways(playwright) == TRUE
EnsureStarts(playwright) == playwright = 0

\* pw = await _ensure_playwright(); user_data.mkdir(...)
B_GcEnsure ==
    /\ b_pc = "gc_ensure"
    /\ IF EnsureStarts(b_playwright)
         THEN \/ /\ b_engines' = b_engines + 1
                 /\ b_starts' = b_starts + 1
                 /\ b_playwright' = b_engines + 1
                 /\ b_running' = b_running \cup {b_engines + 1}
                 /\ b_pc' = "gc_launch"
                 /\ UNCHANGED << b_stack, b_val >>
              \/ /\ B_Finish(Raised(TargetClosedMsg))
                 /\ UNCHANGED << b_engines, b_starts, b_playwright,
                                 b_running >>
         ELSE /\ b_pc' = "gc_launch"
              /\ UNCHANGED << b_stack, b_val, b_engines, b_starts,
                              b_playwright, b_running >>
    /\ UNCHANGED << b_context, b_locals, b_ret, b_alive, b_open, b_sessions,
                    b_tabs, b_calls, not_browser >>

\* _context = await pw.chromium.launch_persistent_context(...);
\* return _context
B_GcLaunch ==
    /\ b_pc = "gc_launch"
    /\ \/ /\ b_playwright \in b_running
          /\ b_sessions' = b_sessions + 1
          /\ b_context' = b_sessions + 1
          /\ b_alive' = b_alive \cup {b_sessions + 1}
          /\ B_Finish(Returned(b_sessions + 1, "", << >>))
       \/ /\ B_Finish(Raised(TargetClosedMsg))
          /\ UNCHANGED << b_sessions, b_context, b_alive >>
    /\ UNCHANGED << b_playwright, b_locals, b_ret, b_running, b_open,
                    b_engines, b_starts, b_tabs, b_calls, not_browser >>

\* The tabs still open that carry the number p.
TabsOf(p) == { t \in b_open : t[2] = p }

\* get_page after get_context returned ctx: page = await ctx.new_page();
\* page.set_default_timeout(...); await page.goto(url, ...); return page.
\* new_page raises on a session that is gone; goto may raise with the tab
\* already open.
B_GpNewPage ==
    /\ b_pc = "gp_new_page"
    /\ \E o \in GetPageOutcomes :
         /\ (b_val.num \notin b_alive) => o = "raise_no_tab"
         /\ IF o = "raise_no_tab"
              THEN UNCHANGED << b_tabs, b_open >>
              ELSE /\ b_tabs' = b_tabs + 1
                   /\ b_open' = b_open \cup {<< b_val.num, b_tabs + 1 >>}
         /\ B_Finish(IF o = "ok" THEN Returned(b_tabs + 1, "", << >>)
                                 ELSE Raised(TargetClosedMsg))
    /\ UNCHANGED << b_globals, b_locals, b_ret, b_alive, b_running,
                    b_sessions, b_engines, b_starts, b_calls, not_browser >>

\* wait_for_element: try: await page.wait_for_selector(...); return True
\* except Exception: return False
WaitOutcomes(p) ==
    IF TabsOf(p) = {} THEN { "error" } ELSE { "appears", "timeout", "error" }
WaitForElementEndRaising(o) ==
    IF o = "error" THEN Raised(TargetClosedMsg)
    ELSE Returned(0, IF o = "appears" THEN "True" ELSE "False", << >>)
WaitForElementEnd(o) ==
    Returned(0, IF o = "appears" THEN "True" ELSE "False", << >>)

B_WaitForElement ==
    /\ b_pc = "we_wait"
    /\ \E o \in WaitOutcomes(b_arg) :
         /\ b_found' = o
         /\ B_Finish(WaitForElementEnd(o))
    /\ UNCHANGED << b_globals, b_arg, b_page, b_status, b_ret, b_browser,
                    b_history, b_calls, not_browser >>

\* close_page: try: await page.close() except Exception: pass
CloseOutcomes(p) ==
    IF TabsOf(p) = {} THEN { "already_closed", "raises" }
    ELSE { "closed", "raises" }
ClosePageEnd(o) == Returned(0, "None", << >>)

B_ClosePage ==
    /\ b_pc = "cp_close"
    /\ \E o \in CloseOutcomes(b_arg) :
         /\ b_found' = o
         /\ b_open' = IF o = "closed" THEN b_open \ TabsOf(b_arg) ELSE b_open
         /\ B_Finish(ClosePageEnd(o))
    /\ UNCHANGED << b_globals, b_arg, b_page, b_status, b_ret, b_alive,
                    b_running, b_history, b_calls, not_browser >>

\* check_auth after get_page returned page: await asyncio.sleep(2);
\* found = await wait_for_element(page, check_selector, timeout=10_000)
B_CaWait ==
    /\ b_pc = "ca_wait"
    /\ \E o \in WaitOutcomes(b_page) :
         LET r == WaitForElementEnd(o) IN
         IF r.kind = "raise"
           THEN /\ B_Finish(Returned(0, "False", ErrorCheckingAuthMsg(r.msg)))
                /\ UNCHANGED b_found
           ELSE /\ b_found' = r.flag
                /\ b_pc' = "ca_close"
                /\ UNCHANGED << b_stack, b_val >>
    /\ UNCHANGED << b_globals, b_arg, b_page, b_status, b_ret, b_browser,
                    b_history, b_calls, not_browser >>

\* check_auth: the dictionary built from found.
CheckAuthResult(found) ==
    IF found = "True" THEN Returned(0, "True", SessionActiveMsg)
    ELSE Returned(0, "False", NotAuthenticatedMsg)

\* current_url = page.url; await close_page(page); if found: return {...}
\* else: return {...}
B_CaClose ==
    /\ b_pc = "ca_close"
    /\ \E o \in CloseOutcomes(b_page) :
         LET r == ClosePageEnd(o) IN
         /\ b_open' = IF o = "closed" THEN b_open \ TabsOf(b_page) ELSE b_open
         /\ B_Finish(IF r.kind = "raise"
                       THEN Returned(0, "False", ErrorCheckingAuthMsg(r.msg))
                       ELSE CheckAuthResult(b_found))
    /\ UNCHANGED << b_globals, b_locals, b_ret, b_alive, b_running,
                    b_history, b_calls, not_browser >>

\* check_auth: except Exception as e: return {"authenticated": False,
\* "message": f"Error checking auth: {str(e)}"}
CheckAuthExceptReraises(v) == v
CheckAuthExcept(v) == Returned(0, "False", ErrorCheckingAuthMsg(v.msg))

\* shutdown: the try/except around _context.close() and _playwright.stop().
ShutdownSwallowsOnlyOk(o) == o = "ok"
ShutdownSwallows(o) == TRUE

\* close() and stop() raise only on a session or engine that is gone.
StopOutcomes(running) == IF running THEN { "ok" } ELSE { "ok", "raise" }

\* shutdown: if _context: try: await _context.close() except Exception:
\* pass; _context = None
B_SdContext ==
    /\ b_pc = "sd_context"
    /\ IF b_context # 0
         THEN \E o \in StopOutcomes(b_context \in b_alive) :
                /\ b_alive' = b_alive \ {b_context}
                /\ b_open' = { t \in b_open : t[1] # b_context }
                /\ IF ShutdownSwallows(o)
                     THEN /\ b_context' = 0
                          /\ b_pc' = "sd_engine"
                          /\ UNCHANGED << b_stack, b_val >>
                     ELSE /\ B_Finish(Raised(TargetClosedMsg))
                          /\ UNCHANGED b_context
         ELSE /\ b_pc' = "sd_engine"
              /\ UNCHANGED << b_context, b_stack, b_val, b_alive, b_open >>
    /\ UNCHANGED << b_playwright, b_locals, b_ret, b_running, b_history,
                    b_calls, not_browser >>

\* shutdown: if _playwright: try: await _playwright.stop() except
\* Exception: pass; _playwright = None
B_SdEngine ==
    /\ b_pc = "sd_engine"
    /\ IF b_playwright # 0
         THEN \E o \in StopOutcomes(b_playwright \in b_running) :
                /\ b_running' = b_running \ {b_playwright}
                /\ IF ShutdownSwallows(o)
                     THEN /\ b_playwright' = 0
                          /\ b_starts' = 0
                          /\ B_Finish(Returned(0, "None", << >>))
                     ELSE /\ B_Finish(Raised(TargetClosedMsg))
                          /\ UNCHANGED << b_playwright, b_starts >>
         ELSE /\ B_Finish(Returned(0, "None", << >>))
              /\ UNCHANGED << b_playwright, b_starts, b_running >>
    /\ UNCHANGED << b_context, b_locals, b_ret, b_alive, b_open, b_sessions,
                    b_engines, b_tabs, b_calls, not_browser >>

\* The outermost function ends: its caller has the value or the exception.
B_ReturnToCaller ==
    /\ b_pc = "return"
    /\ Len(b_stack) = 1
    /\ b_ret' = b_val
    /\ b_stack' = << >>
    /\ b_pc' = "idle"
    /\ UNCHANGED << b_globals, b_locals, b_val, b_browser, b_history,
                    b_calls, not_browser >>

\* get_page: ctx = await get_context(), outside any try.
B_ReturnToGetPage ==
    /\ b_pc = "return"
    /\ Len(b_stack) > 1
    /\ Caller = "get_page"
    /\ b_stack' = Pop
    /\ b_pc' = IF b_val.kind = "raise" THEN "return" ELSE "gp_new_page"
    /\ UNCHANGED << b_globals, b_locals, b_val, b_ret, b_browser, b_history,
                    b_calls, not_browser >>

\* check_auth: try: page = await get_page(url) ... except Exception as e
B_ReturnToCheckAuth ==
    /\ b_pc = "return"
    /\ Len(b_stack) > 1
    /\ Caller = "check_auth"
    /\ b_stack' = Pop
    /\ IF b_val.kind = "raise"
         THEN /\ b_val' = CheckAuthExcept(b_val)
              /\ UNCHANGED << b_pc, b_page >>
         ELSE /\ b_page' = b_val.num
              /\ b_pc' = "ca_wait"
              /\ UNCHANGED b_val
    /\ UNCHANGED << b_globals, b_arg, b_found, b_status, b_ret, b_browser,
                    b_history, b_calls, not_browser >>

\* server.py check_browser_session: grok_status = await check_auth(...);
\* sora_status = await check_auth(...); return {"grok": ..., "sora": ...}
B_ReturnToSession ==
    /\ b_pc = "return"
    /\ Len(b_stack) > 1
    /\ Caller = "check_browser_session"
    /\ IF b_val.kind = "raise"
         THEN /\ b_stack' = Pop
              /\ UNCHANGED << b_pc, b_val, b_status >>
         ELSE /\ b_status' = Append(b_status,
                     [authenticated |-> b_val.flag, message |-> b_val.msg])
              /\ IF Len(b_status) = 0
                   THEN /\ b_stack' = Pop \o CheckAuthEntry
                        /\ b_pc' = "gc_check"
                        /\ UNCHANGED b_val
                   ELSE /\ b_stack' = Pop
                        /\ b_val' = Returned(0, "dict", << >>)
                        /\ UNCHANGED b_pc
    /\ b_page' = 0
    /\ b_found' = "Unbound"
    /\ UNCHANGED << b_globals, b_arg, b_ret, b_browser, b_history, b_calls,
                    not_browser >>

\* The browser window is closed or crashes: the session and its tabs are
\* gone, the stored handle stays.
B_SessionDies ==
    /\ b_pc # "off"
    /\ \E s \in b_alive :
         /\ b_alive' = b_alive \ {s}
         /\ b_open' = { t \in b_open : t[1] # s }
    /\ UNCHANGED << b_globals, b_pc, b_stack, b_val, b_locals, b_ret,
                    b_running, b_history, b_calls, not_browser >>

\* The Playwright driver process dies, and every session with it.
B_EngineDies ==
    /\ b_pc # "off"
    /\ \E e \in b_running :
         /\ b_running' = b_running \ {e}
         /\ b_alive' = {}
         /\ b_open' = {}
    /\ UNCHANGED << b_globals, b_pc, b_stack, b_val, b_locals, b_ret,
                    b_history, b_calls, not_browser >>

InitBrowser ==
    /\ SoraIdle
    /\ GrokIdle
    /\ ParseIdle
    /\ RaceIdle
    /\ b_pc = "idle"
    /\ b_playwright = 0
    /\ b_context = 0
    /\ b_stack = << >>
    /\ b_arg = 0
    /\ b_page = 0
    /\ b_found = "Unbound"
    /\ b_val = NoVal
    /\ b_status = << >>
    /\ b_ret = NoVal
    /\ b_alive = {}
    /\ b_running = {}
    /\ b_open = {}
    /\ b_sessions = 0
    /\ b_engines = 0
    /\ b_starts = 0
    /\ b_tabs = 0
    /\ b_calls = 0

NextBrowser ==
    \/ B_Request
    \/ B_GcCheck
    \/ B_GcEnsure
    \/ B_GcLaunch
    \/ B_GpNewPage
    \/ B_WaitForElement
    \/ B_ClosePage
    \/ B_CaWait
    \/ B_CaClose
    \/ B_SdContext
    \/ B_SdEngine
    \/ B_ReturnToCaller
    \/ B_ReturnToGetPage
    \/ B_ReturnToCheckAuth
    \/ B_ReturnToSession
    \/ B_SessionDies
    \/ B_EngineDies

SpecBrowser == InitBrowser /\ [][NextBrowser]_vars


\* A step of the program, as opposed to one of the browser or the driver.
BrowserStep == << b_pc, b_stack >>' # << b_pc, b_stack >>

C23_SessionsInUse ==
    /\ Cardinality(b_alive) <= 1
    /\ b_alive \subseteq {b_context}
    /\ b_starts <= 1
C23_ReuseOrLaunch ==
    /\ (b_pc = "gc_check" /\ b_context \in b_alive /\ BrowserStep) =>
         /\ b_pc' = "return"
         /\ b_val' = Returned(b_context, "", << >>)
         /\ UNCHANGED << b_globals, b_sessions, b_engines, b_alive >>
    /\ (b_sessions' # b_sessions) =>
         /\ b_context = 0
         /\ b_alive = {}
         /\ b_context' = b_sessions'
         /\ b_alive' = {b_context'}
         /\ b_val' = Returned(b_context', "", << >>)

\* C23: under any serialized sequence of requests at most one persistent
\* session exists; get_context returns the stored session when it is alive
\* and launches a new one only when none is stored or the stored one is dead
\* and was discarded; the engine is started at most once between shutdowns.
C23_SingleSession == []C23_SessionsInUse /\ [][C23_ReuseOrLaunch]_vars

\* A second session was launched after the first one died, on the engine
\* started once, and get_context returned it.
C23_Witness ==
    /\ b_pc = "idle"
    /\ b_sessions = 2
    /\ b_engines = 1
    /\ b_starts = 1
    /\ b_ret = Returned(2, "", << >>)
    /\ b_context = 2


C24_NoneStoredWhileLaunching ==
    b_pc \in { "gc_ensure", "gc_launch" } =>
      /\ b_context = 0
      /\ b_stack[Len(b_stack)] = "get_context"
C24_DiscardThenLaunch ==
    /\ (b_pc = "gc_check" /\ b_context # 0 /\ BrowserStep) =>
         \/ /\ b_pc' = "return"
            /\ b_val' = Returned(b_context, "", << >>)
            /\ UNCHANGED b_context
         \/ /\ b_pc' = "gc_ensure"
            /\ b_context' = 0
            /\ UNCHANGED << b_stack, b_val, b_ret >>
    /\ (b_pc = "gc_launch" /\ BrowserStep) =>
         /\ b_pc' = "return"
         /\ UNCHANGED b_stack
         /\ \/ /\ b_val' = Returned(b_context', "", << >>)
               /\ b_context' = b_sessions + 1
               /\ b_context' \in b_alive'
            \/ /\ b_val'.kind = "raise"
               /\ UNCHANGED << b_context, b_sessions, b_alive >>

\* C24: when the stored handle fails the liveness check of get_context, the
\* handle is discarded without an error to the caller, and the same call goes
\* on to launch a session, which it stores and returns (or it raises the
\* error of the launch itself).
C24_DeadHandleReplaced ==
    []C24_NoneStoredWhileLaunching /\ [][C24_DiscardThenLaunch]_vars

\* The second request, a get_context, found the first session dead, and is
\* returning the session it launched in its place.
C24_Witness ==
    /\ b_pc = "return"
    /\ b_stack = << "get_context" >>
    /\ b_calls = 2
    /\ b_engines = 1
    /\ b_sessions = 2
    /\ b_val = Returned(2, "", << >>)
    /\ b_context = 2
    /\ b_alive = {2}


NothingStored == b_context = 0 /\ b_playwright = 0
C25_ShutdownReturn ==
    (b_pc = "return" /\ b_stack = << "shutdown" >>) =>
      /\ b_val = Returned(0, "None", << >>)
      /\ NothingStored
C25_ShutdownSteps ==
    /\ (b_pc = "sd_context" /\ BrowserStep) =>
         /\ b_pc' = "sd_engine"
         /\ b_context' = 0
         /\ b_context \notin b_alive'
    /\ (b_pc = "sd_engine" /\ BrowserStep) =>
         /\ b_pc' = "return"
         /\ b_playwright' = 0
         /\ b_playwright \notin b_running'
    /\ (b_pc \in { "sd_context", "sd_engine" } /\ NothingStored
          /\ BrowserStep) =>
         UNCHANGED << b_globals, b_browser, b_history >>
    /\ (b_pc = "gc_check" /\ NothingStored /\ BrowserStep) =>
         b_pc' = "gc_ensure"
    /\ (b_pc = "gc_ensure" /\ NothingStored /\ BrowserStep) =>
         \/ b_pc' = "gc_launch" /\ b_playwright' = b_engines + 1
         \/ b_pc' = "return" /\ b_val'.kind = "raise"

\* C25: shutdown never raises and leaves both the stored session and the
\* stored engine cleared, whether close() or stop() fails; the engine is
\* stopped whatever closing the session did; with nothing stored it changes
\* nothing; a get_context after it starts a new engine and launches a new
\* session.
C25_ShutdownClearsBoth == []C25_ShutdownReturn /\ [][C25_ShutdownSteps]_vars

\* The third request, a get_context after a shutdown, stored a new session
\* of a new engine.
C25_Witness ==
    /\ b_pc = "idle"
    /\ b_calls = 3
    /\ b_engines = 2
    /\ b_sessions = 2
    /\ b_context = 2
    /\ b_playwright = 2
    /\ b_alive = {2}
    /\ b_running = {2}


\* The requests that open, use or close pages: what generate_grok_image,
\* generate_sora_video and check_auth make of browser.py.
PageRequests ==
    { "get_page", "close_page", "wait_for_element", "check_auth",
      "check_browser_session" }
PageRequestStep ==
    /\ b_stack # << >>
    /\ b_stack[1] \in PageRequests
    /\ BrowserStep

\* C26 as stated: a step of a page request leaves the stored session and
\* engine unchanged once they have been created.
C26_StoredSessionUnchanged ==
    [][(PageRequestStep /\ b_context # 0 /\ b_playwright # 0) =>
         UNCHANGED b_globals]_vars

C26_ClosedOnlyByShutdown ==
    PageRequestStep =>
      /\ b_alive \subseteq b_alive'
      /\ b_running \subseteq b_running'
      /\ (b_context \in b_alive) => UNCHANGED << b_globals, b_sessions >>
      /\ (b_context' # b_context) =>
           /\ b_context \notin b_alive
           /\ \/ b_pc = "gc_check" /\ b_context' = 0
              \/ b_pc = "gc_launch" /\ b_context' = b_sessions'
      /\ (b_open' # b_open /\ b_pc = "gp_new_page") =>
           b_open' = b_open \cup {<< b_context, b_tabs' >>}

\* C26, amended: no page request closes a session or stops the engine, and
\* while the stored session is running every page request leaves the stored
\* session and engine unchanged and opens its page in that session; a
\* stored session that is gone is discarded and replaced by get_page.
C26_ReusedWhileAlive == [][C26_ClosedOnlyByShutdown]_vars

\* Two get_page requests opened their tabs in the one session.
C26_Witness ==
    /\ b_pc = "idle"
    /\ b_calls = 2
    /\ b_sessions = 1
    /\ b_context = 1
    /\ b_open = { << 1, 1 >>, << 1, 2 >> }
    /\ b_ret = Returned(2, "", << >>)


\* C27: wait_for_element never raises: it returns True when the element
\* appeared before the timeout and False on timeout and on any other error of
\* the wait; close_page never raises and returns None, also when page.close()
\* raises or the page is already closed.
C27_HelpersNeverRaise ==
    /\ (b_pc = "return" /\ b_stack = << "wait_for_element" >>) =>
         /\ b_val.kind = "return"
         /\ b_found \in { "appears", "timeout", "error" }
         /\ b_val.flag \in { "True", "False" }
         /\ b_val.flag = "True" <=> b_found = "appears"
    /\ (b_pc = "return" /\ b_stack = << "close_page" >>) =>
         /\ b_val.kind = "return"
         /\ b_found \in { "closed", "already_closed", "raises" }
         /\ b_val.flag = "None"
         /\ TabsOf(b_arg) # {} => b_found = "raises"

\* wait_for_element is returning False after its wait raised on a page that
\* is no longer open.
C27_Witness ==
    /\ b_pc = "return"
    /\ b_stack = << "wait_for_element" >>
    /\ b_found = "error"
    /\ b_val = Returned(0, "False", << >>)
    /\ TabsOf(b_arg) = {}
    /\ b_alive # {}


IsAuthRecord(r) ==
    /\ r.authenticated \in { "True", "False" }
    /\ r.message # << >>
C28_CheckAuthReturn ==
    (b_pc = "return" /\ b_stack # << >>
       /\ b_stack[Len(b_stack)] = "check_auth") =>
      /\ b_val.kind = "return"
      /\ IsAuthRecord([authenticated |-> b_val.flag, message |-> b_val.msg])
      /\ b_val.flag = "True" <=> b_found = "True"
      /\ b_found = "True" => b_val.msg = SessionActiveMsg
      /\ b_found = "False" => b_val.msg = NotAuthenticatedMsg
      /\ b_found = "Unbound" =>
           SubSeq(b_val.msg, 1, 3) = << "Error", "checking", "auth:" >>
C28_SessionReturn ==
    (b_pc = "return" /\ b_stack = << "check_browser_session" >>) =>
      /\ b_val = Returned(0, "dict", << >>)
      /\ Len(b_status) = 2
      /\ \A i \in 1..2 : IsAuthRecord(b_status[i])

\* C28: check_auth never raises and returns a record with authenticated and
\* message; authenticated is true exactly when the indicator element was
\* found, false when it was not found or a step raised;
\* check_browser_session returns one such record for each of the two
\* targets, also when the check of the first target fails.
C28_AuthRecords == C28_CheckAuthReturn /\ C28_SessionReturn

\* check_browser_session is returning two records: the first check failed
\* on an exception, the second found the indicator.
C28_Witness ==
    /\ b_pc = "return"
    /\ b_stack = << "check_browser_session" >>
    /\ Len(b_status) = 2
    /\ b_status[1].authenticated = "False"
    /\ b_status[1].message[1] = "Error"
    /\ b_status[2].authenticated = "True"
    /\ b_status[2].message = SessionActiveMsg


(***************************************************************************)
(* facebook_metrics.py: parse_number and parse_distribution. A text is a   *)
(* sequence of characters.                                                 *)
(***************************************************************************)
Digits == << "0", "1", "2", "3", "4", "5", "6", "7", "8", "9" >>
IsDigit(c) == \E d \in 1..10 : Digits[d] = c
DigitValue(c) == (CHOOSE d \in 1..10 : Digits[d] = c) - 1

\* The characters the texts are drawn from: two digits, the separator, the
\* signs, the point, the suffix and the blank.
Alphabet == { "0", "7", ",", "-", "+", ".", "x", " " }
\* The texts of the docstrings.
Examples ==
    { << "6", ",", "0", "6", "9", ",", "4", "1", "5" >>,
      << "9", "9", "9" >>,
      << "+", "0", ".", "3", "x" >>,
      << "-", "0", ".", "3", "x" >> }
Texts == UNION { [1..n -> Alphabet] : n \in 0..MaxLen } \cup Examples

\* str.strip(), with the blank for whitespace.
RECURSIVE Strip(_)
Strip(t) ==
    IF t = << >> THEN t
    ELSE IF Head(t) = " " THEN Strip(Tail(t))
    ELSE IF t[Len(t)] = " " THEN Strip(SubSeq(t, 1, Len(t) - 1))
    ELSE t

\* text.replace(old, ""), old one character.
Replace(t, old) == SelectSeq(t, LAMBDA c : c # old)

\* The number a string of digits denotes.
RECURSIVE NatOf(_)
NatOf(ds) ==
    IF ds = << >> THEN 0
    ELSE NatOf(SubSeq(ds, 1, Len(ds) - 1)) * 10 + DigitValue(ds[Len(ds)])

\* What a parser returns: an int (scale 0), a float mant / 10^scale with its
\* sign, or None.
IntResult(n) ==
    [kind |-> "int", neg |-> n < 0, mant |-> IF n < 0 THEN -n ELSE n,
     scale |-> 0]
RECURSIVE FloatResult(_, _, _)
FloatResult(neg, mant, scale) ==
    IF scale > 0 /\ mant % 10 = 0 THEN FloatResult(neg, mant \div 10, scale - 1)
    ELSE [kind |-> "float", neg |-> neg, mant |-> mant, scale |-> scale]
NoneResult == [kind |-> "None", neg |-> FALSE, mant |-> 0, scale |-> 0]

\* The text without its sign, and whether the sign is a minus.
Unsigned(t) == IF t # << >> /\ Head(t) \in { "+", "-" } THEN Tail(t) ELSE t
IsMinus(t) == t # << >> /\ Head(t) = "-"

\* int(text): blanks around, an optional sign, one or more digits; anything
\* else is a ValueError.
IntIsValueError(t) ==
    LET ds == Unsigned(Strip(t)) IN
    ds = << >> \/ \E i \in 1..Len(ds) : ~IsDigit(ds[i])
IntOf(t) ==
    LET u == Strip(t) IN
    IF IsMinus(u) THEN -NatOf(Unsigned(u)) ELSE NatOf(Unsigned(u))

\* float(text): blanks around, an optional sign, digits with at most one
\* point and at least one digit; anything else is a ValueError.
FloatIsValueError(t) ==
    LET b == Unsigned(Strip(t)) IN
    \/ \E i \in 1..Len(b) : ~IsDigit(b[i]) /\ b[i] # "."
    \/ Len(Replace(b, ".")) = 0
    \/ Len(b) - Len(Replace(b, ".")) > 1
FloatOf(t) ==
    LET u == Strip(t)
        b == Unsigned(u)
        point == IF \E i \in 1..Len(b) : b[i] = "."
                   THEN CHOOSE i \in 1..Len(b) : b[i] = "."
                   ELSE Len(b)
    IN FloatResult(IsMinus(u), NatOf(Replace(b, ".")), Len(b) - point)

Placeholders == { << "-", "-" >>, << >>, << "-" >> }

\* parse_number without its replace(",", "")
ParseNumberKeepsCommas(text) ==
    LET t == Strip(text) IN
    IF t \in Placeholders \/ IntIsValueError(t) THEN IntResult(0)
    ELSE IntResult(IntOf(t))

\* parse_number
ParseNumber(text) ==
    LET stripped == Strip(text) IN
    IF stripped \in Placeholders THEN IntResult(0)
    ELSE LET t == Replace(stripped, ",") IN
         IF IntIsValueError(t) THEN IntResult(0) ELSE IntResult(IntOf(t))

\* parse_distribution
ParseDistribution(text) ==
    LET stripped == Strip(text) IN
    IF stripped \in Placeholders THEN NoneResult
    ELSE LET t == Replace(stripped, "x") IN
         IF FloatIsValueError(t) THEN NoneResult ELSE FloatOf(t)

P_ParseNumber ==
    /\ p_pc = "ready"
    /\ p_pc' = "number"
    /\ p_result' = ParseNumber(p_text)
    /\ UNCHANGED << p_text, not_parse >>

P_ParseDistribution ==
    /\ p_pc = "ready"
    /\ p_pc' = "distribution"
    /\ p_result' = ParseDistribution(p_text)
    /\ UNCHANGED << p_text, not_parse >>

InitParse ==
    /\ SoraIdle
    /\ GrokIdle
    /\ BrowserIdle
    /\ RaceIdle
    /\ p_pc = "ready"
    /\ p_text \in Texts
    /\ p_result = [kind |-> "none", neg |-> FALSE, mant |-> 0, scale |-> 0]

NextParse ==
    \/ P_ParseNumber
    \/ P_ParseDistribution

SpecParse == InitParse /\ [][NextParse]_vars

\* d{1,3}(,ddd)*: digits in groups of three from the right.
IsGrouped(t) ==
    /\ t # << >>
    /\ Head(t) # ","
    /\ \A i \in 1..Len(t) :
         IF (Len(t) - i + 1) % 4 = 0 THEN t[i] = "," ELSE IsDigit(t[i])
\* An optional sign and one or more digits.
IsIntegerText(t) ==
    \E n \in 1..Len(t) :
      /\ \A i \in (Len(t) - n + 1)..Len(t) : IsDigit(t[i])
      /\ \/ Len(t) = n
         \/ Len(t) = n + 1 /\ t[1] \in { "+", "-" }
DigitsOf(t) == SelectSeq(t, IsDigit)
WithoutCommas(t) == SelectSeq(t, LAMBDA c : c # ",")

IsNumberText(t) ==
    LET b == IF t # << >> /\ t[1] \in { "+", "-" }
               THEN SubSeq(t, 2, Len(t)) ELSE t
    IN /\ DigitsOf(b) # << >>
       /\ Len(b) - Len(DigitsOf(b)) <= 1
       /\ \A i \in 1..Len(b) : IsDigit(b[i]) \/ b[i] = "."
\* The text without its x suffix.
WithoutSuffix(t) ==
    IF t # << >> /\ t[Len(t)] = "x" THEN SubSeq(t, 1, Len(t) - 1) ELSE t

\* C30: parse_distribution never raises: it returns None for the empty
\* string, for "-" and "--" and for every text that is not a number once its
\* x suffix is removed, and otherwise the value with the sign of the text
\* ("+0.3x" gives 0.3, "-0.3x" gives -0.3).
C30_ParseDistribution ==
    p_pc = "distribution" =>
      LET t == Strip(p_text)
          number == Strip(WithoutSuffix(t)) IN
      /\ p_result.kind \in { "None", "float" }
      /\ (t \in { << >>, << "-" >>, << "-", "-" >> } \/ ~IsNumberText(number))
           => p_result = NoneResult
      /\ p_result.kind = "float" => p_result.neg = (number[1] = "-")
      /\ p_text = << "+", "0", ".", "3", "x" >> =>
           p_result = [kind |-> "float", neg |-> FALSE, mant |-> 3,
                       scale |-> 1]
      /\ p_text = << "-", "0", ".", "3", "x" >> =>
           p_result = [kind |-> "float", neg |-> TRUE, mant |-> 3,
                       scale |-> 1]


C31_Phase ==
    /\ (g_pc' # g_pc \/ g_attempt' # g_attempt) =>
         \/ /\ g_pc \in GrokTryBlock \ { "save" }
            /\ g_pc' = PhaseAfter(g_pc)
            /\ UNCHANGED << g_attempt, g_last_error, g_result, g_written >>
         \/ /\ g_pc = "save"
            /\ g_pc' = "done"
            /\ g_result'.success
            /\ g_written' = g_image_data
            /\ UNCHANGED << g_attempt, g_last_error >>
         \/ /\ g_pc \in GrokTryBlock
            /\ g_pc' = "open"
            /\ g_attempt' = g_attempt + 1
            /\ UNCHANGED g_result
         \/ /\ g_pc \in GrokTryBlock
            /\ g_pc' = "done"
            /\ ~g_result'.success
            /\ UNCHANGED g_attempt
    /\ (g_typed' # g_typed) => g_pc = "type_prompt"
    /\ (g_submits' # g_submits) => g_pc = "click_submit" /\ g_pc' = "poll"
    /\ (g_image_data' # g_image_data /\ g_image_data' # None) =>
         g_pc = "poll" /\ g_pc' = "save"
    /\ (g_written' # g_written) =>
         g_pc = "save" /\ g_image_data \notin { None, Unbound }

\* C31: within an attempt of generate_grok_image the phases run only in the
\* order navigate, auth check, wait for the editor, type, find and click
\* submit, poll, save: the prompt is typed only in the phase after the editor
\* was found, submit is clicked only after the typing phase, the file is
\* written only with the payload the poll returned; a step that fails the
\* attempt starts the next attempt or returns the failure, and no later phase
\* of the failed attempt runs.
C31_PhasesInOrder == [][C31_Phase]_vars

\* Attempt 2 reached the save phase, after attempt 1 failed at its submit
\* button.
C31_Witness ==
    /\ g_pc = "save"
    /\ g_attempt = 2
    /\ g_typed = 2
    /\ g_submits = 1
    /\ g_last_error = GrokSubmitMsg
    /\ g_image_data \notin { None, Unbound }


(***************************************************************************)
(* browser.py: get_context called by tasks of one event loop. A task runs  *)
(* until its next await; the other tasks run while it is suspended.        *)
(***************************************************************************)
c_frame ==
    << b_pc, b_stack, b_arg, b_page, b_found, b_val, b_status, b_ret, b_open,
       b_tabs, svars, gvars, pvars >>

\* A task calls get_context, for the first time or again, and runs it up to
\* its first await: the stored session is returned with no
\* await at all; otherwise _ensure_playwright awaits start() when
\* _playwright is None, and else get_context awaits
\* launch_persistent_context.
R_Call(c) ==
    /\ c_pc[c] \in { "ready", "done" }
    /\ b_calls < MaxCalls
    /\ b_calls' = b_calls + 1
    /\ \/ /\ b_context # 0
          /\ c_pc' = [c_pc EXCEPT ![c] = "done"]
          /\ c_ret' = [c_ret EXCEPT ![c] = Returned(b_context, "", << >>)]
          /\ UNCHANGED b_context
       \/ /\ b_context = 0 \/ PagesMayRaise(b_context)
          /\ b_context' = 0
          /\ c_pc' = [c_pc EXCEPT ![c] = IF EnsureStarts(b_playwright)
                                           THEN "starting" ELSE "launching"]
          /\ c_ret' = [c_ret EXCEPT ![c] = NoVal]
    /\ UNCHANGED << b_playwright, b_alive, b_running, b_sessions, b_engines,
                    b_starts, c_frame >>

\* _playwright = await async_playwright().start() resumes; return
\* _playwright; mkdir; launch_persistent_context is awaited.
R_Started(c) ==
    /\ c_pc[c] = "starting"
    /\ \/ /\ b_engines' = b_engines + 1
          /\ b_starts' = b_starts + 1
          /\ b_playwright' = b_engines + 1
          /\ b_running' = b_running \cup {b_engines + 1}
          /\ c_pc' = [c_pc EXCEPT ![c] = "launching"]
          /\ UNCHANGED c_ret
       \/ /\ c_pc' = [c_pc EXCEPT ![c] = "done"]
          /\ c_ret' = [c_ret EXCEPT ![c] = Raised(TargetClosedMsg)]
          /\ UNCHANGED << b_engines, b_starts, b_playwright, b_running >>
    /\ UNCHANGED << b_context, b_alive, b_sessions, b_calls, c_frame >>

\* _context = await pw.chromium.launch_persistent_context(...) resumes;
\* return _context. A launch on a profile directory another session holds
\* may succeed or fail.
R_Launched(c) ==
    /\ c_pc[c] = "launching"
    /\ \/ /\ b_sessions' = b_sessions + 1
          /\ b_context' = b_sessions + 1
          /\ b_alive' = b_alive \cup {b_sessions + 1}
          /\ c_ret' = [c_ret EXCEPT ![c] = Returned(b_sessions + 1, "", << >>)]
       \/ /\ c_ret' = [c_ret EXCEPT ![c] = Raised(TargetClosedMsg)]
          /\ UNCHANGED << b_sessions, b_context, b_alive >>
    /\ c_pc' = [c_pc EXCEPT ![c] = "done"]
    /\ UNCHANGED << b_playwright, b_running, b_engines, b_starts, b_calls,
                    c_frame >>

\* The browser window of a session is closed or crashes.
R_SessionDies ==
    /\ \E s \in b_alive : b_alive' = b_alive \ {s}
    /\ UNCHANGED << b_playwright, b_context, b_running, b_sessions, b_engines,
                    b_starts, b_calls, c_frame, c_pc, c_ret >>

\* Tool calls handled at the same time: nothing is stored, every task is
\* about to call get_context.
InitRace ==
    /\ SoraIdle
    /\ GrokIdle
    /\ BrowserIdle
    /\ ParseIdle
    /\ c_pc = [c \in Callers |-> "ready"]
    /\ c_ret = [c \in Callers |-> NoVal]

NextRace ==
    \/ \E c \in Callers : R_Call(c)
    \/ \E c \in Callers : R_Started(c)
    \/ \E c \in Callers : R_Launched(c)
    \/ R_SessionDies

SpecRace == InitRace /\ [][NextRace]_vars

\* C32: when get_context calls interleave at their awaits, at most one task
\* is launching a session at a time, at most one session is running, and
\* the tasks that were given a running session were given the stored one.
C32_OneLaunchUnderRace ==
    /\ Cardinality({ c \in Callers : c_pc[c] = "launching" }) <= 1
    /\ Cardinality(b_alive) <= 1
    /\ b_engines <= 1
    /\ \A c \in Callers :
         (c_ret[c].kind = "return" /\ c_ret[c].num \in b_alive) =>
           c_ret[c].num = b_context


\* C33: get_page returns a navigated page or raises leaving no tab open: after
\* the step of an attempt that calls get_page (the exception handler
\* included, when it raised), the only tab that step may have added to the
\* open tabs is the page the attempt now holds.
C33_GetPageLeavesNoTab ==
    [][(g_pc = "open") => (g_open' \ g_open) \subseteq {g_page'}]_vars


\* C34: a call has written to the output path if and only if it returns
\* success: a call that returned a failure has written no bytes there, and a
\* call that returned success has written the content.
C34_WrittenIffSuccess ==
    /\ g_pc = "done" => (g_result.success <=> g_written # << >>)
    /\ s_pc = "done" => (s_result.success <=> s_written)


C35_AfterCommit ==
    (s_pc \in SoraPolling \cup { "goto_drafts", "open_detail", "find_video",
                                 "video_src", "download" }
       \/ (s_pc = "done" /\ s_result.success)) =>
      /\ s_create_clicked
      /\ s_commit_attempt = s_attempt
      /\ s_snapshot_attempt = s_attempt
C35_Success ==
    (s_pc = "done" /\ s_result.success) =>
      /\ s_new_draft_href \notin { None, Unbound, << >> }
      /\ s_new_draft_href \notin s_existing_drafts
C35_CommitStep ==
    (s_commits' # s_commits) =>
      /\ s_commits' = s_commits + 1
      /\ s_commit_attempt # s_attempt
      /\ s_commit_attempt' = s_attempt
      /\ s_snapshot_attempt = s_attempt
      /\ ~s_create_clicked

\* C35: generate_sora_video returns success only if, in the attempt that
\* succeeded, Create fired exactly once and the poll found a href outside
\* the snapshot taken in that same attempt; from the commit on, the snapshot
\* compared against is never one of an earlier attempt.
C35_SuccessNeedsOwnSnapshot ==
    /\ []C35_AfterCommit
    /\ []C35_Success
    /\ [][C35_CommitStep]_vars

\* Attempt 2 succeeded with its own snapshot and its own commit, after
\* attempt 1 had taken a snapshot and failed before the click.
C35_Witness ==
    /\ s_pc = "done"
    /\ s_result.success
    /\ s_attempt = 2
    /\ s_commits = 1
    /\ s_snapshot_attempt = 2
    /\ s_last_error = SoraCreateMsg

(***************************************************************************)
(* Either workflow under the event loop's scheduling: the coroutine is      *)
(* resumed whenever the operation it awaits has returned or raised, and     *)
(* asyncio.sleep returns once the clock has advanced.                       *)
(***************************************************************************)
\* The steps of the coroutine itself (the remote service's steps left out).
SoraProgram ==
    \/ S_Open
    \/ S_AuthCheck
    \/ S_SetDuration
    \/ S_WaitTextarea
    \/ S_TypePrompt
    \/ S_WaitSceneCards
    \/ S_SnapOpen
    \/ S_SnapRead
    \/ S_FindCreate
    \/ S_ClickCreate
    \/ S_GotoDrafts
    \/ S_PollCheck
    \/ S_PollReload
    \/ S_PollSleep
    \/ S_OpenDetail
    \/ S_FindVideo
    \/ S_VideoSrc
    \/ S_Download
GrokProgram ==
    \/ G_Open
    \/ G_AuthCheck
    \/ G_WaitEditor
    \/ G_TypePrompt
    \/ G_FindSubmit
    \/ G_ClickSubmit
    \/ G_Poll
    \/ G_Save

SpecWorkflowsLive == SpecWorkflows /\ WF_vars(SoraProgram \/ GrokProgram)

\* C36: every call of generate_sora_video and of generate_grok_image
\* eventually returns, when the clock advances and every browser operation
\* returns or raises: the call that has started reaches its return statement.
C36_EveryCallReturns == <>(s_pc = "done" \/ g_pc = "done")

\* Both poll loops ran to their deadline in every attempt and the retry loop
\* used its last attempt.
C36_Witness ==
    \/ /\ g_pc = "done"
       /\ g_attempt = RETRY_ATTEMPTS
       /\ g_elapsed = GrokTimeoutTicks
       /\ g_last_error = GrokNoImageMsg
    \/ /\ s_pc = "done"
       /\ s_elapsed = SoraTimeoutTicks
       /\ s_last_error = SoraTimedOutMsg

\* C37: in both workflows exactly one retry delay is slept between two
\* consecutive attempts, after a detected failure and after an exception
\* alike, and none after the final attempt or after a successful one: the
\* delays slept so far are one fewer than the attempts started, a delay is
\* slept exactly in the step that starts the next attempt, and no other step
\* (the returns included) sleeps one.
C37_DelaysSoFar ==
    /\ s_pc # "idle" => s_sleeps = s_attempt - 1
    /\ g_pc # "idle" => g_sleeps = g_attempt - 1
C37_DelayStep ==
    /\ IF s_attempt' # s_attempt
         THEN s_attempt' = s_attempt + 1 /\ s_sleeps' = s_sleeps + 1
         ELSE s_sleeps' = s_sleeps
    /\ IF g_attempt' # g_attempt
         THEN g_attempt' = g_attempt + 1 /\ g_sleeps' = g_sleeps + 1
         ELSE g_sleeps' = g_sleeps
C37_OneDelayBetweenAttempts == []C37_DelaysSoFar /\ [][C37_DelayStep]_vars

\* The third attempt succeeded: two delays were slept, none after it.
C37_Witness ==
    \/ /\ g_pc = "done"
       /\ g_result.success
       /\ g_attempt = RETRY_ATTEMPTS
       /\ g_sleeps = RETRY_ATTEMPTS - 1
    \/ /\ s_pc = "done"
       /\ s_result.success
       /\ s_attempt = RETRY_ATTEMPTS
       /\ s_sleeps = RETRY_ATTEMPTS - 1

\* C38: in _poll_drafts_for_new exactly one reload lies between two
\* consecutive evaluations of the new-entry check, every evaluation after the
\* first reads the listing that reload loaded, and the first reads the
\* listing loaded by the navigation after the Create click.  The listing in
\* the page changes only by that navigation and by a reload; the check is
\* entered only from the navigation or from the sleep that follows a reload;
\* a reload is entered only from a check that found nothing new; and the
\* outcome of a check is computed from the listing in the page.
C38_Cycle ==
    /\ s_dom' # s_dom => s_pc \in {"goto_drafts", "poll_reload"}
    /\ (s_pc' = "poll" /\ s_pc # "poll") =>
          \/ s_pc = "goto_drafts" /\ s_create_clicked /\ s_dom' = s_server
          \/ s_pc = "poll_sleep" /\ s_dom' = s_dom
    /\ (s_pc' = "poll_sleep" /\ s_pc # "poll_sleep") =>
          s_pc = "poll_reload" /\ s_dom' = s_server
    /\ (s_pc' = "poll_reload" /\ s_pc # "poll_reload") =>
          /\ s_pc = "poll"
          /\ NewHrefs(GetDraftHrefs(s_dom), s_existing_drafts) = << >>
    /\ (s_pc = "poll" /\ s_pc' = "open_detail") =>
          s_new_draft_href' =
              NewHrefs(GetDraftHrefs(s_dom), s_existing_drafts)[1]
C38_OneReloadPerCheck == [][C38_Cycle]_vars

\* A check after the first found the new tile in the reloaded listing, which
\* the listing loaded by the navigation did not hold.
C38_Witness ==
    /\ s_pc = "open_detail"
    /\ s_elapsed > 0
    /\ s_true_at >= 0
    /\ s_new_draft_href \in Range(GetDraftHrefs(s_dom))

====
